---- MODULE Spec2Model ----
(***************************************************************************)
(* Verification model of the OracleXBT agent runtime and market            *)
(* aggregator.                                                             *)
(*                                                                         *)
(*   SpecAgent       PredictionMarketAgent.chat / chat_stream and the two  *)
(*                   agent loops (src/agent/agent.py) over                 *)
(*                   ConversationMemory (src/agent/memory.py)              *)
(*   SpecTurn        one such turn, from each history earlier turns can    *)
(*                   leave                                                 *)
(*   SpecAggregator  PredictionMarketAggregator.search_all,                *)
(*                   get_trending_all, get_market and the async            *)
(*                   aggregator (src/agent/platforms/aggregator.py)        *)
(*   SpecFlat        PredictionMarketAggregator.search_all_flat            *)
(*   SpecArb         PredictionMarketAggregator.find_arbitrage             *)
(*   SpecMemory      ConversationMemory: add_message, track_market,        *)
(*                   set_preference, clear (src/agent/memory.py)           *)
(*   SpecTracking    ConversationMemory.track_market and its eviction      *)
(*   SpecTools       PredictionMarketAgent._execute_tool behind one        *)
(*                   blocking turn (src/agent/agent.py, tools.py,          *)
(*                   twitter_tools.py)                                     *)
(*   SpecTrading     the trading tools over one TradingTerminal            *)
(*                   (src/agent/trading_tools.py,                          *)
(*                   src/bin/trading_terminal.py)                          *)
(*   SpecRegistry    the tool registry and its translation to the          *)
(*                   provider dialects (src/agent/agent.py, tools.py)      *)
(*   SpecEngine      TradingEngine under activate, deactivate and the      *)
(*                   agent_monitor threads (src/bin/trading_engine.py,     *)
(*                   src/bin/api_server.py)                                *)
(*   SpecDatabase    Database.save_trade and the cached statistics         *)
(*                   (src/database.py)                                     *)
(*                                                                         *)
(* Strings are sequences of characters, so that concatenation and          *)
(* startswith are computed and not assumed.                                *)
(***************************************************************************)
EXTENDS Integers, Sequences, FiniteSets, TLC

\* ------------------------------------------------------------------------
\* Bounds of the model
\* ------------------------------------------------------------------------
MaxTurns == 2
MaxBudget == 2
MaxChunks == 2

\* ------------------------------------------------------------------------
\* Program constants
\* ------------------------------------------------------------------------
DefaultMaxMessages == 50

NoId == -1
None == "None"

\* ------------------------------------------------------------------------
\* Text values
\* ------------------------------------------------------------------------
EmptyStr == <<>>
SystemPrompt == <<"S">>
UserMessages == {<<"q">>}
TextA == <<"a">>
TextB == <<"b", "c">>
\* The i-th text fragment of a model stream.
ChunkAt(i) == IF i % 2 = 1 THEN <<"x">> ELSE <<"y", "z">>

Providers == {"anthropic", "openai"}
ToolNames == {"search_markets", "post_tweet"}
ToolOutcomes == {"ok", "error"}

\* The tool calls one model response can carry, in the model's call order.
CallLists ==
    { <<"search_markets">>,
      <<"post_tweet", "search_markets">> }

\* The text blocks of one model response: Anthropic content may hold several
\* text blocks, an OpenAI message holds one content string or none.
TextBlockLists(p) ==
    IF p = "anthropic"
    THEN { <<>>, <<TextB, TextA>> }
    ELSE { <<>>, <<TextA>> }

\* What a blocking model call can answer when the tool schemas are offered:
\* text only, or tool calls only.
Responses(p) ==
    { [text |-> t, calls |-> <<>>] : t \in TextBlockLists(p) }
    \cup { [text |-> <<>>, calls |-> c] : c \in CallLists }

\* ------------------------------------------------------------------------
\* State
\* ------------------------------------------------------------------------
VARIABLES
    provider,          \* config.llm_provider
    max_tool_calls,    \* config.max_tool_calls
    max_messages,      \* ConversationMemory.max_messages (deque maxlen)
    memory,            \* ConversationMemory._messages
    turns,             \* number of turns started
    mode,              \* "chat" or "stream": the entry point of the turn
    pc,                \* position of the turn
    user_message,      \* the message argument of the turn
    messages,          \* the in-flight message list of the loop
    tool_calls_count,  \* the budget counter of the loop
    pending,           \* tool calls of the current round not yet executed
    nextId,            \* next tool call id the provider hands out
    response_text,     \* chat: the text _run_agent_loop returned
    full_response,     \* chat_stream: the fragments concatenated so far
    nchunks,           \* fragments of the open model stream yielded so far
    yielded,           \* history: fragments handed to the stream consumer
    llmLog,            \* history: model calls issued in this turn
    execLog,           \* history: tool executions of this turn
    appendLog,         \* history: add_assistant_message calls of this turn
    returned           \* what chat returned (None while it has not)

agentVars ==
    << provider, max_tool_calls, max_messages, memory, turns, mode, pc,
       user_message, messages, tool_calls_count, pending, nextId,
       response_text, full_response, nchunks, yielded, llmLog, execLog,
       appendLog, returned >>

VARIABLES
    clients,           \* aggregator: self.clients, the keys in insertion order
    aop,               \* aggregator: the operation in progress
    apc,               \* aggregator: position of the operation
    platforms_arg,     \* search: the platforms argument
    tasks,             \* search: one record per submitted per-source task
    doneQueue,         \* search: completed futures as_completed still holds
    results,           \* search: the results dict under construction
    market_id,         \* get_market: the market_id argument
    probe,             \* get_market: index of the next client of the fallback
    callsLog,          \* history: client.get_market calls of this lookup
    aret               \* what the operation returned (NotReturned before)

aggVars ==
    << clients, aop, apc, platforms_arg, tasks, doneQueue, results,
       market_id, probe, callsLog, aret >>

VARIABLES
    flat_limit         \* search_all_flat: the limit argument

flatVars == << flat_limit >>

VARIABLES
    min_spread         \* find_arbitrage: the min_spread argument, in hundredths

arbVars == << min_spread >>

VARIABLES
    max_market_context, \* ConversationMemory.max_market_context
    market_context,    \* ConversationMemory._market_context, in dict order
    user_preferences,  \* ConversationMemory._user_preferences (its keys)
    session_start,     \* ConversationMemory._session_start
    clock,             \* what datetime.now() reads
    mem_pc,            \* position of the memory operation in progress
    mem_op,            \* the memory operation in progress, or the last one
    added,             \* history: the messages added since the last clear
    tracked            \* history: the ids tracked since the last clear

memVars ==
    << max_market_context, market_context, user_preferences, session_start,
       clock, mem_pc, mem_op, added, tracked >>

VARIABLES
    twitter_state,     \* agent.twitter_tools: "disabled" (None), "unconfigured"
                       \* (TwitterTools whose client is not ready) or "ready"
    trading_importable, \* whether agent.trading_tools can be imported
    dispatchLog        \* history: the _execute_tool calls of this turn

toolVars == << twitter_state, trading_importable, dispatchLog >>

VARIABLES
    wallet_configured, \* WalletManager: the Polygon wallet has an address
    max_position_size, \* RiskManager.max_position_size
    max_total_exposure, \* RiskManager.max_total_exposure
    orders,            \* TradingTerminal.orders
    positions,         \* TradingTerminal.positions
    current_balance,   \* TradingTerminal.current_balance
    last_trade         \* history: the last trading tool call

tradeVars ==
    << wallet_configured, max_position_size, max_total_exposure, orders,
       positions, current_balance, last_trade >>

VARIABLES
    trading_enabled,   \* tools.TRADING_ENABLED: the import worked at load time
    reg_dialect,       \* the dialect asked for
    registry,          \* what _get_all_tool_definitions returned
    translated,        \* the translation under construction
    reg_pc             \* position of the translation

regVars == << trading_enabled, reg_dialect, registry, translated, reg_pc >>

VARIABLES
    agent_active,      \* AgentConfig.active of the registered agent
    agent_max_trades,  \* AgentConfig.max_trades
    agent_positions,   \* TradingEngine.agent_positions[agent_id]
    monitors           \* the agent_monitor threads started, each its position

engVars == << agent_active, agent_max_trades, agent_positions, monitors >>

VARIABLES
    trades,            \* the trades table
    agent_stats,       \* the agent_stats table, by agent_id
    system_stats,      \* the one row of system_stats
    now_ms,            \* datetime.now() in milliseconds at the last save_trade
    db_calls,          \* save_trade calls so far
    save_returned      \* what the last save_trade returned

dbVars == << trades, agent_stats, system_stats, now_ms, db_calls, save_returned >>

srvVars == << engVars, dbVars >>

\* The state behind the agent: trading terminal, registry, engine, database.
extVars == << tradeVars, regVars, srvVars >>

\* The state outside the agent turn and outside the aggregator.
libVars == << flatVars, arbVars, memVars, toolVars, extVars >>

\* What search_all_flat and find_arbitrage leave alone besides the
\* aggregator's own state.
flatFrame == << agentVars, arbVars, memVars, toolVars, extVars >>

arbFrame == << agentVars, flatVars, memVars, toolVars, extVars >>

\* What the operations of ConversationMemory leave alone besides the memory.
memFrame ==
    << aggVars, flatVars, arbVars, toolVars, extVars, provider, max_tool_calls, turns, mode, pc,
       user_message, messages, tool_calls_count, pending, nextId,
       response_text, full_response, nchunks, yielded, llmLog, execLog,
       appendLog, returned >>

nonAgentVars == << aggVars, libVars >>

nonAggVars == << agentVars, libVars >>

vars == << agentVars, aggVars, libVars >>

\* ------------------------------------------------------------------------
\* ConversationMemory (src/agent/memory.py)
\* ------------------------------------------------------------------------
DequeAppendKeepsOldest(d, x, maxlen) ==
    IF Len(d) >= maxlen THEN d ELSE Append(d, x)

\* deque(maxlen=n).append: the oldest element is dropped when full.
DequeAppend(d, x, maxlen) ==
    IF maxlen = 0 THEN <<>>
    ELSE IF Len(d) >= maxlen THEN Append(Tail(d), x)
    ELSE Append(d, x)

add_user_message(mem, content, maxlen) ==
    DequeAppend(mem, [role |-> "user", content |-> content], maxlen)

add_assistant_message(mem, content, maxlen) ==
    DequeAppend(mem, [role |-> "assistant", content |-> content], maxlen)

PlainMessage(role, content) ==
    [role |-> role, content |-> content, calls |-> <<>>,
     result_for |-> NoId, result |-> EmptyStr]

get_messages_for_llm(mem) ==
    [i \in 1..Len(mem) |-> PlainMessage(mem[i].role, mem[i].content)]

\* ------------------------------------------------------------------------
\* Agent helpers (src/agent/agent.py)
\* ------------------------------------------------------------------------
build_messages(mem) ==
    <<PlainMessage("system", SystemPrompt)>> \o get_messages_for_llm(mem)

LoopGuardInclusive(count, max) == count <= max

\* The while condition of both loops.
LoopGuard(count, max) == count < max

\* One tool call per tool_use block / tool_calls entry, in response order;
\* the provider numbers them with fresh ids.
extract_tool_calls(resp, firstId) ==
    [i \in 1..Len(resp.calls) |-> [id |-> firstId + i - 1, name |-> resp.calls[i]]]

\* Anthropic: the first block that has text, else "".  OpenAI: content or "".
extract_text(resp) ==
    IF resp.text = <<>> THEN EmptyStr ELSE Head(resp.text)

\* The assistant message keeps every tool call of the response.  Anthropic:
\* content is response.content (text and tool_use blocks); OpenAI: content
\* is None and tool_calls the message's tool calls.
response_to_message(p, resp, firstId) ==
    [role |-> "assistant",
     content |-> IF p = "anthropic" THEN extract_text(resp) ELSE EmptyStr,
     calls |-> extract_tool_calls(resp, firstId),
     result_for |-> NoId, result |-> EmptyStr]

\* ToolResult.to_message
to_message(outcome) ==
    IF outcome = "ok" THEN <<"d">> ELSE <<"E", "r", "r", "o", "r", ":", " ", "e">>

tool_result_message_no_openai_id(p, tool_call, outcome) ==
    [role |-> IF p = "anthropic" THEN "user" ELSE "tool",
     content |-> EmptyStr, calls |-> <<>>,
     result_for |-> IF p = "anthropic" THEN tool_call.id ELSE NoId,
     result |-> to_message(outcome)]

\* Anthropic: a user message with a tool_result block (tool_use_id);
\* OpenAI: a tool message (tool_call_id).
tool_result_message(p, tool_call, outcome) ==
    [role |-> IF p = "anthropic" THEN "user" ELSE "tool",
     content |-> EmptyStr, calls |-> <<>>,
     result_for |-> tool_call.id, result |-> to_message(outcome)]

RestOfRoundBudgetChecked(calls, count, max) ==
    IF count >= max THEN <<>> ELSE Tail(calls)

\* The for loop over tool_calls: what is left after one iteration, count
\* being the counter after its increment.  The loop body compares nothing
\* with the budget.
RestOfRound(calls, count, max) == Tail(calls)

AccumulateOverwrite(full, chunk) == chunk

\* chat_stream: full_response += chunk
Accumulate(full, chunk) == full \o chunk

AfterLLMFailureRetry == "head"

\* Where a turn goes when a model call raises: no handler on the way out.
AfterLLMFailure == "failed"

\* The synthetic progress fragment of the streaming loop.
ProgressFragment(name) == <<"#">> \o <<name>> \o <<"\n">>

\* ------------------------------------------------------------------------
\* Derived views of the in-flight list
\* ------------------------------------------------------------------------
CallIds(msgs) ==
    UNION { { msgs[i].calls[j].id : j \in 1..Len(msgs[i].calls) } :
            i \in 1..Len(msgs) }

ResultCount(msgs, id) ==
    Cardinality({ i \in 1..Len(msgs) : msgs[i].result_for = id })

\* Every tool call of the list is answered by exactly one tool result.
Paired(msgs) == \A id \in CallIds(msgs) : ResultCount(msgs, id) = 1

LlmEntry(api, tools, final, ncalls) ==
    [api |-> api, tools |-> tools, final |-> final, ncalls |-> ncalls,
     count |-> tool_calls_count, nexec |-> Len(execLog),
     paired |-> Paired(messages)]

Terminal == {"done", "failed", "abandoned"}

\* ------------------------------------------------------------------------
\* Init
\* ------------------------------------------------------------------------
\* The agent before its first turn, whatever its configuration.
AgentIdle ==
    /\ turns = 0
    /\ mode = "chat"
    /\ pc = "idle"
    /\ user_message = EmptyStr
    /\ messages = <<>>
    /\ tool_calls_count = 0
    /\ pending = <<>>
    /\ nextId = 0
    /\ response_text = EmptyStr
    /\ full_response = EmptyStr
    /\ nchunks = 0
    /\ yielded = <<>>
    /\ llmLog = <<>>
    /\ execLog = <<>>
    /\ appendLog = <<>>
    /\ returned = None

AgentFresh ==
    /\ memory = <<>>
    /\ AgentIdle

AgentInit ==
    /\ provider \in Providers
    /\ max_tool_calls \in 0..MaxBudget
    /\ max_messages = DefaultMaxMessages
    /\ AgentFresh

configVars == << provider, max_tool_calls, max_messages >>

\* ------------------------------------------------------------------------
\* chat / chat_stream: entry
\* ------------------------------------------------------------------------
StartTurn(m, msg) ==
    /\ pc \in {"idle"} \cup Terminal
    /\ turns < MaxTurns
    /\ turns' = turns + 1
    /\ mode' = m
    /\ user_message' = msg
    /\ memory' = add_user_message(memory, msg, max_messages)
    /\ messages' = build_messages(memory')
    /\ tool_calls_count' = 0
    /\ pending' = <<>>
    /\ nextId' = 0
    /\ response_text' = EmptyStr
    /\ full_response' = EmptyStr
    /\ nchunks' = 0
    /\ yielded' = <<>>
    /\ llmLog' = <<>>
    /\ execLog' = <<>>
    /\ appendLog' = <<>>
    /\ returned' = None
    /\ pc' = "head"
    /\ UNCHANGED << nonAgentVars, configVars >>

Chat == \E msg \in UserMessages : StartTurn("chat", msg)

ChatStream == \E msg \in UserMessages : StartTurn("stream", msg)

\* ------------------------------------------------------------------------
\* The loop body: one blocking model call
\* ------------------------------------------------------------------------
LoopCallLLM ==
    /\ pc = "head"
    /\ LoopGuard(tool_calls_count, max_tool_calls)
    /\ \E resp \in Responses(provider) :
        LET tool_calls == extract_tool_calls(resp, nextId) IN
        /\ llmLog' = Append(llmLog, LlmEntry("call", TRUE, FALSE, Len(tool_calls)))
        /\ IF tool_calls = <<>>
           THEN /\ IF mode = "chat"
                   THEN /\ response_text' = extract_text(resp)
                        /\ pc' = "return"
                   ELSE /\ response_text' = response_text
                        /\ pc' = "final_stream"
                /\ UNCHANGED << messages, pending, nextId >>
           ELSE /\ messages' = Append(messages, response_to_message(provider, resp, nextId))
                /\ pending' = tool_calls
                /\ nextId' = nextId + Len(tool_calls)
                /\ pc' = "exec"
                /\ UNCHANGED response_text
    /\ UNCHANGED << nonAgentVars, configVars, memory, turns, mode, user_message,
                    tool_calls_count, full_response, nchunks, yielded,
                    execLog, appendLog, returned >>

\* A transport or provider error of a blocking model call: nothing catches it
\* in _call_llm, the loops, chat or chat_stream.
LLMCallFails ==
    /\ pc = "head"
    /\ llmLog' = Append(llmLog,
          LlmEntry("call", TRUE, ~LoopGuard(tool_calls_count, max_tool_calls), -1))
    /\ pc' = AfterLLMFailure
    /\ UNCHANGED << nonAgentVars, configVars, memory, turns, mode, user_message, messages,
                    tool_calls_count, pending, nextId, response_text,
                    full_response, nchunks, yielded, execLog, appendLog,
                    returned >>

\* ------------------------------------------------------------------------
\* The for loop over the tool calls of a round
\* ------------------------------------------------------------------------
RunToolLastFirst(outcome) ==
    LET tool_call == pending[Len(pending)] IN
    /\ messages' = Append(messages, tool_result_message(provider, tool_call, outcome))
    /\ tool_calls_count' = tool_calls_count + 1
    /\ execLog' = Append(execLog,
          [id |-> tool_call.id, name |-> tool_call.name, outcome |-> outcome,
           nllm |-> Len(llmLog), nmsgs |-> Len(messages)])
    /\ pending' = SubSeq(pending, 1, Len(pending) - 1)
    /\ pc' = IF pending' = <<>> THEN "head" ELSE "exec"

\* One iteration of the for loop: _execute_tool, the append of its result
\* message, the counter.
RunTool(outcome) ==
    LET tool_call == Head(pending) IN
    /\ messages' = Append(messages, tool_result_message(provider, tool_call, outcome))
    /\ tool_calls_count' = tool_calls_count + 1
    /\ execLog' = Append(execLog,
          [id |-> tool_call.id, name |-> tool_call.name, outcome |-> outcome,
           nllm |-> Len(llmLog), nmsgs |-> Len(messages)])
    /\ pending' = RestOfRound(pending, tool_calls_count', max_tool_calls)
    /\ pc' = IF pending' = <<>> THEN "head" ELSE "exec"

\* Blocking loop: execute the next tool call of the round.
ExecuteTool ==
    /\ pc = "exec"
    /\ mode = "chat"
    /\ \E outcome \in ToolOutcomes : RunTool(outcome)
    /\ UNCHANGED << nonAgentVars, configVars, memory, turns, mode, user_message, nextId,
                    response_text, full_response, nchunks, yielded, llmLog,
                    appendLog, returned >>

\* Streaming loop: the progress fragment is yielded before the tool runs;
\* chat_stream adds it to full_response and passes it on.
YieldProgress ==
    /\ pc = "exec"
    /\ mode = "stream"
    /\ LET frag == ProgressFragment(Head(pending).name) IN
        /\ full_response' = Accumulate(full_response, frag)
        /\ yielded' = Append(yielded, frag)
    /\ pc' = "suspended"
    /\ UNCHANGED << nonAgentVars, configVars, memory, turns, mode, user_message, messages,
                    tool_calls_count, pending, nextId, response_text, nchunks,
                    llmLog, execLog, appendLog, returned >>

ResumeExecuteToolUncounted ==
    /\ pc = "suspended"
    /\ \E outcome \in ToolOutcomes :
        LET tool_call == Head(pending) IN
        /\ messages' = Append(messages, tool_result_message(provider, tool_call, outcome))
        /\ execLog' = Append(execLog,
              [id |-> tool_call.id, name |-> tool_call.name, outcome |-> outcome,
               nllm |-> Len(llmLog), nmsgs |-> Len(messages)])
        /\ pending' = Tail(pending)
        /\ pc' = IF pending' = <<>> THEN "head" ELSE "exec"
    /\ UNCHANGED << nonAgentVars, configVars, memory, turns, mode, user_message, nextId,
                    tool_calls_count, response_text, full_response, nchunks,
                    yielded, llmLog, appendLog, returned >>

\* The consumer asks for the next fragment: the tool runs.
ResumeExecuteTool ==
    /\ pc = "suspended"
    /\ \E outcome \in ToolOutcomes : RunTool(outcome)
    /\ UNCHANGED << nonAgentVars, configVars, memory, turns, mode, user_message, nextId,
                    response_text, full_response, nchunks, yielded, llmLog,
                    appendLog, returned >>

\* ------------------------------------------------------------------------
\* After the loop
\* ------------------------------------------------------------------------
\* Blocking loop, budget exhausted: one more _call_llm.  _call_anthropic and
\* _call_openai always pass the tool schemas, so the answer may again carry
\* tool calls; only its text is used.
FinalCall ==
    /\ pc = "head"
    /\ mode = "chat"
    /\ ~LoopGuard(tool_calls_count, max_tool_calls)
    /\ \E resp \in Responses(provider) :
        /\ llmLog' = Append(llmLog, LlmEntry("call", TRUE, TRUE, Len(resp.calls)))
        /\ response_text' = extract_text(resp)
    /\ pc' = "return"
    /\ UNCHANGED << nonAgentVars, configVars, memory, turns, mode, user_message, messages,
                    tool_calls_count, pending, nextId, full_response, nchunks,
                    yielded, execLog, appendLog, returned >>

FinalStreamAnyTime ==
    /\ pc = "head"
    /\ mode = "stream"
    /\ pc' = "final_stream"
    /\ UNCHANGED << nonAgentVars, configVars, memory, turns, mode, user_message, messages,
                    tool_calls_count, pending, nextId, response_text,
                    full_response, nchunks, yielded, llmLog, execLog,
                    appendLog, returned >>

\* Streaming loop, budget exhausted: fall through to the final _stream_llm.
FinalStream ==
    /\ pc = "head"
    /\ mode = "stream"
    /\ ~LoopGuard(tool_calls_count, max_tool_calls)
    /\ pc' = "final_stream"
    /\ UNCHANGED << nonAgentVars, configVars, memory, turns, mode, user_message, messages,
                    tool_calls_count, pending, nextId, response_text,
                    full_response, nchunks, yielded, llmLog, execLog,
                    appendLog, returned >>

\* _stream_llm: the stream is opened without tool schemas.
OpenStream ==
    /\ pc = "final_stream"
    /\ llmLog' = Append(llmLog,
          LlmEntry("stream", FALSE, ~LoopGuard(tool_calls_count, max_tool_calls), 0))
    /\ nchunks' = 0
    /\ pc' = "streaming"
    /\ UNCHANGED << nonAgentVars, configVars, memory, turns, mode, user_message, messages,
                    tool_calls_count, pending, nextId, response_text,
                    full_response, yielded, execLog, appendLog, returned >>

\* One text fragment of the stream reaches chat_stream and its consumer.
StreamChunk ==
    /\ pc = "streaming"
    /\ nchunks < MaxChunks
    /\ LET chunk == ChunkAt(nchunks + 1) IN
        /\ full_response' = Accumulate(full_response, chunk)
        /\ yielded' = Append(yielded, chunk)
    /\ nchunks' = nchunks + 1
    /\ UNCHANGED << nonAgentVars, configVars, memory, turns, mode, pc, user_message, messages,
                    tool_calls_count, pending, nextId, response_text, llmLog,
                    execLog, appendLog, returned >>

\* The stream ends: the generator of the loop is exhausted.
StreamEnd ==
    /\ pc = "streaming"
    /\ pc' = "return"
    /\ UNCHANGED << nonAgentVars, configVars, memory, turns, mode, user_message, messages,
                    tool_calls_count, pending, nextId, response_text,
                    full_response, nchunks, yielded, llmLog, execLog,
                    appendLog, returned >>

\* The stream breaks with a transport or provider error.
StreamFails ==
    /\ pc \in {"final_stream", "streaming"}
    /\ llmLog' = IF pc = "final_stream"
                 THEN Append(llmLog,
                        LlmEntry("stream", FALSE,
                                 ~LoopGuard(tool_calls_count, max_tool_calls), -1))
                 ELSE llmLog
    /\ pc' = "failed"
    /\ UNCHANGED << nonAgentVars, configVars, memory, turns, mode, user_message, messages,
                    tool_calls_count, pending, nextId, response_text,
                    full_response, nchunks, yielded, execLog, appendLog,
                    returned >>

\* The consumer stops reading while the generator is suspended at a yield.
StreamAbandoned ==
    /\ \/ pc = "suspended"
       \/ pc = "streaming" /\ nchunks > 0
    /\ pc' = "abandoned"
    /\ UNCHANGED << nonAgentVars, configVars, memory, turns, mode, user_message, messages,
                    tool_calls_count, pending, nextId, response_text,
                    full_response, nchunks, yielded, llmLog, execLog,
                    appendLog, returned >>

\* chat: add_assistant_message(response_text); return response_text.
\* chat_stream: add_assistant_message(full_response) after the last fragment.
FinishTurn ==
    /\ pc = "return"
    /\ LET out == IF mode = "chat" THEN response_text ELSE full_response IN
        /\ memory' = add_assistant_message(memory, out, max_messages)
        /\ appendLog' = Append(appendLog, out)
        /\ returned' = IF mode = "chat" THEN out ELSE None
    /\ pc' = "done"
    /\ UNCHANGED << nonAgentVars, configVars, turns, mode, user_message, messages,
                    tool_calls_count, pending, nextId, response_text,
                    full_response, nchunks, yielded, llmLog, execLog >>

AgentStep ==
    \/ LoopCallLLM
    \/ LLMCallFails
    \/ ExecuteTool
    \/ YieldProgress
    \/ ResumeExecuteTool
    \/ FinalCall
    \/ FinalStream
    \/ OpenStream
    \/ StreamChunk
    \/ StreamEnd
    \/ StreamFails
    \/ FinishTurn

\* ------------------------------------------------------------------------
\* PredictionMarketAggregator (src/agent/platforms/aggregator.py)
\* ------------------------------------------------------------------------
\* Bound of the model: a source answers a search with at most this many markets.
MaxMarkets == 2

NotReturned == "NotReturned"

\* The order in which __init__ inserts the clients.
PlatformOrder == <<"manifold", "metaculus", "predictit", "polymarket">>

\* Members of the Platform enum that never get a client.
OtherPlatforms == {"kalshi"}

RECURSIVE SubSequences(_)
SubSequences(s) ==
    IF s = <<>> THEN {<<>>}
    ELSE LET rest == SubSequences(Tail(s)) IN
         rest \cup { <<Head(s)>> \o r : r \in rest }

\* The values of the platforms argument of search_all / get_trending_all.
PlatformArgs ==
    { None, <<>>, <<"metaculus">>, <<"polymarket", "manifold">>,
      <<"kalshi", "predictit">>, <<"manifold", "manifold">> }

SearchOps ==
    {"search_all", "get_trending_all", "async_search_all", "async_get_trending_all"}

SyncOps == {"search_all", "get_trending_all"}

Range(s) == { s[i] : i \in 1..Len(s) }

ManifoldPrefix == <<"m", "a", "n", "i", "f", "o", "l", "d", "-">>
MetaculusPrefix == <<"m", "e", "t", "a", "c", "u", "l", "u", "s", "-">>
PredictItPrefix == <<"p", "r", "e", "d", "i", "c", "t", "i", "t", "-">>
PolymarketPrefix == <<"p", "m", "-">>

\* The market ids get_market is called with.
MarketIds ==
    { ManifoldPrefix \o <<"7">>,
      MetaculusPrefix \o <<"7">>,
      PredictItPrefix \o <<"7">>,
      PolymarketPrefix \o <<"7">>,
      <<"k", "a", "l", "s", "h", "i", "-", "7">>,
      <<"m", "a", "n", "i", "f", "o", "l", "d">>,
      <<"p", "m", "7">>,
      <<"7">> }

\* str.startswith
StartsWith(str, prefix) ==
    /\ Len(str) >= Len(prefix)
    /\ SubSeq(str, 1, Len(prefix)) = prefix

detect_platform(mid) ==
    IF StartsWith(mid, ManifoldPrefix) THEN "manifold"
    ELSE IF StartsWith(mid, MetaculusPrefix) THEN "metaculus"
    ELSE IF StartsWith(mid, PredictItPrefix) THEN "predictit"
    ELSE IF StartsWith(mid, PolymarketPrefix) THEN "polymarket"
    ELSE None

\* platforms or self.enabled_platforms: None and [] both select the default.
target_platforms(arg, cl) ==
    IF arg = None THEN cl
    ELSE IF arg = <<>> THEN cl
    ELSE arg

\* The k markets a source answers with.
Answer(p, k) == [i \in 1..k |-> [platform |-> p, native |-> i]]

search_platform_unguarded(p, raised, markets) ==
    [platform |-> p, markets |-> markets, error |-> raised]

\* search_platform / get_trending: the client call inside try/except; what the
\* task's future holds.  error: the future holds an exception.
search_platform(p, raised, markets) ==
    [platform |-> p, markets |-> IF raised THEN <<>> ELSE markets,
     error |-> FALSE]

\* Assignment to a dict key: a new key goes last, an old key keeps its place.
DictSet(dict, key, value) ==
    IF \E i \in 1..Len(dict) : dict[i].platform = key
    THEN [i \in 1..Len(dict) |->
            IF dict[i].platform = key
            THEN [platform |-> key, markets |-> value]
            ELSE dict[i]]
    ELSE Append(dict, [platform |-> key, markets |-> value])

Keys(dict) == { dict[i].platform : i \in 1..Len(dict) }

Lookup(dict, key) ==
    dict[CHOOSE i \in 1..Len(dict) : dict[i].platform = key].markets

RECURSIVE DictOf(_)
\* {platform: markets for platform, markets in results_list}
DictOf(pairs) ==
    IF pairs = <<>> THEN <<>>
    ELSE LET last == pairs[Len(pairs)] IN
         DictSet(DictOf(SubSeq(pairs, 1, Len(pairs) - 1)),
                 last.platform, last.markets)

\* The per-source tasks that are submitted: p in target_platforms if p in
\* self.clients.
SubmittedPlatforms(targets, cl) ==
    SelectSeq(targets, LAMBDA p : p \in Range(cl))

AnyCollected(ts) == \E i \in 1..Len(ts) : ts[i].collected

\* as_completed is exhausted: every future has been handed out.
AllCollected(ts) == \A i \in 1..Len(ts) : ts[i].collected

\* asyncio.gather is done.
AllSettled(ts) == \A i \in 1..Len(ts) : ts[i].settled

ProbeStops(idx, n) == n + 1

\* except Exception: continue
ProbeAfterRaise(idx, n) == idx + 1

AggInit ==
    /\ clients \in SubSequences(PlatformOrder)
    /\ aop = "none"
    /\ apc = "idle"
    /\ platforms_arg = None
    /\ tasks = <<>>
    /\ doneQueue = <<>>
    /\ results = <<>>
    /\ market_id = <<>>
    /\ probe = 0
    /\ callsLog = <<>>
    /\ aret = NotReturned

AggDone == {"idle", "returned", "raised"}

\* search_all / get_trending_all (both aggregators): the tasks are submitted.
StartSearch ==
    /\ apc \in AggDone
    /\ \E op \in SearchOps, arg \in PlatformArgs :
        LET targets == target_platforms(arg, clients)
            subs == SubmittedPlatforms(targets, clients)
        IN
        /\ aop' = op
        /\ platforms_arg' = arg
        /\ tasks' = [i \in 1..Len(subs) |->
                        [platform |-> subs[i], settled |-> FALSE,
                         collected |-> FALSE, raised |-> FALSE,
                         answer |-> <<>>,
                         result |-> search_platform(subs[i], FALSE, <<>>)]]
        \* ThreadPoolExecutor(max_workers=0) raises ValueError.
        /\ apc' = IF op \in SyncOps /\ Len(targets) = 0 THEN "raised" ELSE "running"
    /\ doneQueue' = <<>>
    /\ results' = <<>>
    /\ market_id' = <<>>
    /\ probe' = 0
    /\ callsLog' = <<>>
    /\ aret' = NotReturned
    /\ UNCHANGED << nonAggVars, clients >>

\* One per-source task runs to its end: the source answers or raises.
SourceSettles ==
    /\ apc = "running"
    /\ aop \in SearchOps
    /\ \E i \in 1..Len(tasks) :
        /\ ~tasks[i].settled
        /\ \E raised \in BOOLEAN, k \in 0..MaxMarkets :
            /\ raised => k = 0
            /\ LET markets == Answer(tasks[i].platform, k) IN
               tasks' = [tasks EXCEPT ![i] =
                   [@ EXCEPT !.settled = TRUE, !.raised = raised,
                             !.answer = markets,
                             !.result = search_platform(@.platform, raised, markets)]]
        /\ doneQueue' = IF aop \in SyncOps THEN Append(doneQueue, i) ELSE doneQueue
    /\ UNCHANGED << nonAggVars, clients, aop, apc, platforms_arg, results,
                    market_id, probe, callsLog, aret >>

\* for future in as_completed(futures): results[platform] = markets
CollectResult ==
    /\ apc = "running"
    /\ aop \in SyncOps
    /\ doneQueue # <<>>
    /\ LET i == Head(doneQueue)
           r == tasks[i].result
       IN
       /\ tasks' = [tasks EXCEPT ![i].collected = TRUE]
       /\ IF r.error
          THEN /\ apc' = "raised"
               /\ results' = results
          ELSE /\ apc' = apc
               /\ results' = DictSet(results, r.platform, r.markets)
    /\ doneQueue' = Tail(doneQueue)
    /\ UNCHANGED << nonAggVars, clients, aop, platforms_arg, market_id, probe,
                    callsLog, aret >>

\* The with block is left and results returned.
ReturnResults ==
    /\ apc = "running"
    /\ aop \in SyncOps
    /\ AllCollected(tasks)
    /\ aret' = results
    /\ apc' = "returned"
    /\ UNCHANGED << nonAggVars, clients, aop, platforms_arg, tasks, doneQueue,
                    results, market_id, probe, callsLog >>

\* results_list = await asyncio.gather(*tasks); return the dict built of it.
GatherReturns ==
    /\ apc = "running"
    /\ aop \in SearchOps \ SyncOps
    /\ AllSettled(tasks)
    /\ IF \E i \in 1..Len(tasks) : tasks[i].result.error
       THEN /\ apc' = "raised"
            /\ UNCHANGED << results, aret >>
       ELSE /\ results' = DictOf([i \in 1..Len(tasks) |->
                                    [platform |-> tasks[i].result.platform,
                                     markets |-> tasks[i].result.markets]])
            /\ aret' = results'
            /\ apc' = "returned"
    /\ UNCHANGED << nonAggVars, clients, aop, platforms_arg, tasks, doneQueue,
                    market_id, probe, callsLog >>

\* What a client's get_market returns on a hit.
MarketOf(p, mid) == [platform |-> p, id |-> mid]

\* get_market: the platform is detected from the prefix.
StartGetMarket ==
    /\ apc \in AggDone
    /\ \E mid \in MarketIds :
        LET platform == detect_platform(mid) IN
        /\ market_id' = mid
        /\ apc' = IF platform # None /\ platform \in Range(clients)
                  THEN "direct" ELSE "probe"
    /\ aop' = "get_market"
    /\ probe' = 1
    /\ callsLog' = <<>>
    /\ aret' = NotReturned
    /\ platforms_arg' = None
    /\ tasks' = <<>>
    /\ doneQueue' = <<>>
    /\ results' = <<>>
    /\ UNCHANGED << nonAggVars, clients >>

\* return self.clients[platform].get_market(market_id), inside try/except
\* that prints and falls through to the loop over all clients.
DirectLookup ==
    /\ apc = "direct"
    /\ LET platform == detect_platform(market_id) IN
       \E hit \in BOOLEAN :
        /\ callsLog' = Append(callsLog, [platform |-> platform, hit |-> hit])
        /\ IF hit
           THEN /\ aret' = MarketOf(platform, market_id)
                /\ apc' = "returned"
           ELSE /\ aret' = aret
                /\ apc' = "probe"
    /\ UNCHANGED << nonAggVars, clients, aop, platforms_arg, tasks, doneQueue,
                    results, market_id, probe >>

\* for client in self.clients.values(): try: return client.get_market(...)
ProbeClient ==
    /\ apc = "probe"
    /\ probe <= Len(clients)
    /\ \E hit \in BOOLEAN :
        /\ callsLog' = Append(callsLog, [platform |-> clients[probe], hit |-> hit])
        /\ IF hit
           THEN /\ aret' = MarketOf(clients[probe], market_id)
                /\ apc' = "returned"
                /\ probe' = probe
           ELSE /\ aret' = aret
                /\ apc' = apc
                /\ probe' = ProbeAfterRaise(probe, Len(clients))
    /\ UNCHANGED << nonAggVars, clients, aop, platforms_arg, tasks, doneQueue,
                    results, market_id >>

\* The loop is exhausted: return None.
ProbeExhausted ==
    /\ apc = "probe"
    /\ probe > Len(clients)
    /\ aret' = None
    /\ apc' = "returned"
    /\ UNCHANGED << nonAggVars, clients, aop, platforms_arg, tasks, doneQueue,
                    results, market_id, probe, callsLog >>

\* ------------------------------------------------------------------------
\* search_all_flat (src/agent/platforms/aggregator.py)
\* ------------------------------------------------------------------------
\* Bound of the model: the largest limit search_all_flat is called with.
MaxLimit == 3

\* The floor of the per-source limit.
MinPerPlatform == 10

Max(a, b) == IF a >= b THEN a ELSE b

Min(a, b) == IF a <= b THEN a ELSE b

\* max(limit // len(self.enabled_platforms), 10)
per_platform(limit, n) == Max(limit \div n, MinPerPlatform)

RECURSIVE PlatformResults(_, _)
\* The dicts search_all can return for the submitted sources S when every
\* source is asked for at most cap markets: one key per source, in any
\* completion order, each mapped to what the source delivered ([] when its
\* call raised).
PlatformResults(S, cap) ==
    IF S = {} THEN { <<>> }
    ELSE UNION { { <<[platform |-> p, markets |-> Answer(p, k)]>> \o d :
                     d \in PlatformResults(S \ {p}, cap),
                     k \in 0..Min(MaxMarkets, cap) } : p \in S }

RECURSIVE max_len(_)
\* max(len(m) for m in platform_results.values()) if platform_results else 0
max_len(dict) ==
    IF dict = <<>> THEN 0
    ELSE Max(Len(Head(dict).markets), max_len(Tail(dict)))

\* all_markets[:limit], limit >= 0
Slice(s, limit) == SubSeq(s, 1, Min(limit, Len(s)))

RECURSIVE interleave(_, _, _, _, _)
\* The nested loops of search_all_flat at row i (0-based) and dict position
\* j, with all_markets = acc: the item is appended first and the limit is
\* tested after the append.
interleave(dict, limit, i, j, acc) ==
    IF i >= max_len(dict) THEN Slice(acc, limit)
    ELSE IF j > Len(dict) THEN interleave(dict, limit, i + 1, 1, acc)
    ELSE IF i < Len(dict[j].markets)
         THEN LET appended == Append(acc, dict[j].markets[i + 1]) IN
              IF Len(appended) >= limit THEN appended
              ELSE interleave(dict, limit, i, j + 1, appended)
         ELSE interleave(dict, limit, i, j + 1, acc)

FlatInit == flat_limit = 0

FlatRests == FlatInit

\* search_all_flat(query, limit, platforms) is called: per_platform is
\* computed, and search_all is entered.
SearchAllFlat ==
    /\ apc \in AggDone
    /\ \E limit \in 0..MaxLimit, arg \in PlatformArgs :
        /\ flat_limit' = limit
        /\ platforms_arg' = arg
    /\ aop' = "search_all_flat"
    /\ results' = <<>>
    /\ IF Len(clients) = 0
       THEN \* limit // 0: ZeroDivisionError
            /\ apc' = "raised"
            /\ aret' = "ZeroDivisionError"
       ELSE /\ apc' = "flat_search"
            /\ aret' = NotReturned
    /\ UNCHANGED << flatFrame, clients, tasks, doneQueue, market_id, probe,
                    callsLog >>

\* self.search_all(query, per_platform, platforms) returns platform_results.
FlatSearchReturns ==
    /\ apc = "flat_search"
    /\ \E res \in PlatformResults(
                     Range(SubmittedPlatforms(
                         target_platforms(platforms_arg, clients), clients)),
                     per_platform(flat_limit, Len(clients))) :
        results' = res
    /\ apc' = "flat_interleave"
    /\ UNCHANGED << flatFrame, flatVars, clients, aop, platforms_arg, tasks,
                    doneQueue, market_id, probe, callsLog, aret >>

\* The interleaving loops and the return.
FlatInterleave ==
    /\ apc = "flat_interleave"
    /\ aret' = interleave(results, flat_limit, 0, 1, <<>>)
    /\ apc' = "returned"
    /\ UNCHANGED << flatFrame, flatVars, clients, aop, platforms_arg, tasks,
                    doneQueue, results, market_id, probe, callsLog >>

\* ------------------------------------------------------------------------
\* find_arbitrage (src/agent/platforms/aggregator.py)
\* ------------------------------------------------------------------------
\* Bound of the model: the number of snapshots one search delivers in all.
MaxSnapshots == 3

\* Probabilities and spreads are counted in hundredths.
MinSpreads == {5, 6, 8}

\* common_words
common_words ==
    {"the", "a", "an", "will", "be", "in", "to", "of", "for", "on", "at"}

\* Titles, as the words str.split() separates.
TitleWillXWin == <<"Will", "X", "win", "the", "election">>
TitleXToWin == <<"X", "to", "win", "election">>
TitleStopwords == <<"Will", "the", "BE">>
TitleYWin == <<"Y", "WIN">>
TitleYLoses == <<"Y", "loses", "big", "election">>

\* str.lower on a word
lower(w) ==
    CASE w = "Will" -> "will"
      [] w = "X" -> "x"
      [] w = "Y" -> "y"
      [] w = "WIN" -> "win"
      [] w = "BE" -> "be"
      [] OTHER -> w

\* set(title.lower().split()) - common_words
title_words(title) ==
    { lower(title[i]) : i \in 1..Len(title) } \ common_words

\* Market.probability is None
NoProbability == -1

Snapshot(id, platform, title, probability, active) ==
    [id |-> id, platform |-> platform, title |-> title,
     probability |-> probability, is_active |-> active]

\* The snapshots the sources can deliver.
SnapshotPool ==
    { Snapshot("manifold-1", "manifold", TitleWillXWin, 62, TRUE),
      Snapshot("manifold-2", "manifold", TitleXToWin, 70, TRUE),
      Snapshot("metaculus-1", "metaculus", TitleXToWin, 70, TRUE),
      Snapshot("metaculus-2", "metaculus", TitleYWin, 57, TRUE),
      Snapshot("predictit-1", "predictit", TitleWillXWin, NoProbability, TRUE),
      Snapshot("predictit-2", "predictit", TitleStopwords, 10, TRUE),
      Snapshot("pm-1", "polymarket", TitleYLoses, 20, TRUE),
      Snapshot("pm-2", "polymarket", TitleXToWin, 50, FALSE) }

\* The ids of the pool in the order of Python's string comparison.
IdOrder ==
    << "manifold-1", "manifold-2", "metaculus-1", "metaculus-2",
       "pm-1", "pm-2", "predictit-1", "predictit-2" >>

IdRank(id) == CHOOSE i \in 1..Len(IdOrder) : IdOrder[i] = id

\* tuple(sorted([market1.id, market2.id]))
pair_key(id1, id2) ==
    IF IdRank(id1) <= IdRank(id2) THEN <<id1, id2>> ELSE <<id2, id1>>

RECURSIVE Group(_)
\* The results dict that presents the snapshots s in this order: the sources
\* in the order of their first snapshot, every source's snapshots in their
\* order.
Group(s) ==
    IF s = <<>> THEN <<>>
    ELSE LET g == Group(SubSeq(s, 1, Len(s) - 1))
             m == s[Len(s)]
             sofar == IF m.platform \in Keys(g) THEN Lookup(g, m.platform)
                      ELSE <<>>
         IN DictSet(g, m.platform, Append(sofar, m))

RECURSIVE WithEmpty(_, _)
\* search_all has a key for every source: the sources without a snapshot
\* map to [].
WithEmpty(dict, cl) ==
    IF cl = <<>> THEN dict
    ELSE WithEmpty(IF Head(cl) \in Keys(dict) THEN dict
                   ELSE DictSet(dict, Head(cl), <<>>),
                   Tail(cl))

RECURSIVE Flatten(_)
\* for platform, markets in results.items(): for market in markets
Flatten(dict) ==
    IF dict = <<>> THEN <<>>
    ELSE Head(dict).markets \o Flatten(Tail(dict))

\* if market.probability is not None and market.is_active
all_markets(dict) ==
    SelectSeq(Flatten(dict),
              LAMBDA m : m.probability # NoProbability /\ m.is_active)

Abs(x) == IF x >= 0 THEN x ELSE -x

overlap(m1, m2) ==
    Cardinality(title_words(m1.title) \cap title_words(m2.title))

smaller(m1, m2) ==
    Min(Cardinality(title_words(m1.title)),
        Cardinality(title_words(m2.title)))

\* not (similarity < 0.5), similarity = overlap / min(len, len)
similar(m1, m2) == ~(2 * overlap(m1, m2) < smaller(m1, m2))

spread_reported_strict(spread, least) == spread > least

\* if spread >= min_spread
spread_reported(spread, least) == spread >= least

seen_pair_never(key, checked_pairs) == FALSE

\* not (pair_key not in checked_pairs)
seen_pair(key, checked_pairs) == key \in checked_pairs

RECURSIVE match(_, _, _, _, _, _)
\* The pairwise scan at market1 = ms[i], market2 = ms[j], i < j.
match(ms, least, i, j, checked_pairs, opportunities) ==
    IF i > Len(ms) THEN opportunities
    ELSE IF j > Len(ms)
    THEN match(ms, least, i + 1, i + 2, checked_pairs, opportunities)
    ELSE LET market1 == ms[i]
             market2 == ms[j]
             spread == Abs(market1.probability - market2.probability)
             key == pair_key(market1.id, market2.id)
         IN IF \/ market1.platform = market2.platform
               \/ title_words(market1.title) = {}
               \/ title_words(market2.title) = {}
               \/ ~similar(market1, market2)
               \/ ~spread_reported(spread, least)
               \/ seen_pair(key, checked_pairs)
            THEN match(ms, least, i, j + 1, checked_pairs, opportunities)
            ELSE match(ms, least, i, j + 1, checked_pairs \cup {key},
                       Append(opportunities,
                              [market1 |-> market1, market2 |-> market2,
                               spread |-> spread,
                               similarity |-> << overlap(market1, market2),
                                                 smaller(market1, market2) >>]))

RECURSIVE sort_by_spread(_)
\* opportunities.sort(key=spread, reverse=True): stable, largest first.
sort_by_spread(opps) ==
    IF opps = <<>> THEN <<>>
    ELSE LET front == sort_by_spread(SubSeq(opps, 1, Len(opps) - 1))
             x == opps[Len(opps)]
             k == Cardinality({ i \in 1..Len(front) :
                                  front[i].spread >= x.spread })
         IN SubSeq(front, 1, k) \o <<x>> \o SubSeq(front, k + 1, Len(front))

find_arbitrage(dict, least) ==
    sort_by_spread(match(all_markets(dict), least, 1, 2, {}, <<>>))

ArbInit == min_spread = 5

ArbRests == ArbInit

\* find_arbitrage(query, min_spread) is called and enters search_all, which
\* raises when no source is enabled.
FindArbitrage ==
    /\ apc \in AggDone
    /\ min_spread' \in MinSpreads
    /\ aop' = "find_arbitrage"
    /\ platforms_arg' = None
    /\ results' = <<>>
    /\ IF Len(clients) = 0
       THEN /\ apc' = "raised"
            /\ aret' = "ValueError"
       ELSE /\ apc' = "arb_search"
            /\ aret' = NotReturned
    /\ UNCHANGED << arbFrame, clients, tasks, doneQueue, market_id, probe,
                    callsLog >>

\* The sequences of at most n elements of S.
SeqsUpTo(S, n) == UNION { [1..k -> S] : k \in 0..n }

\* self.search_all(query, limit_per_platform=20) returns.
ArbSearchReturns ==
    /\ apc = "arb_search"
    /\ \E s \in SeqsUpTo({ m \in SnapshotPool : m.platform \in Range(clients) },
                         MaxSnapshots) :
        results' = WithEmpty(Group(s), clients)
    /\ apc' = "arb_match"
    /\ UNCHANGED << arbFrame, arbVars, clients, aop, platforms_arg, tasks,
                    doneQueue, market_id, probe, callsLog, aret >>

\* The scan, the sort and the return.
ArbMatch ==
    /\ apc = "arb_match"
    /\ aret' = find_arbitrage(results, min_spread)
    /\ apc' = "returned"
    /\ UNCHANGED << arbFrame, arbVars, clients, aop, platforms_arg, tasks,
                    doneQueue, results, market_id, probe, callsLog >>

\* The snapshots s presented in the order perm.
Permuted(s, perm) == [i \in 1..Len(s) |-> s[perm[i]]]

\* find_arbitrage is called again with the same min_spread, and search_all
\* returns the same snapshots, in the same or in another order.
ArbRerun ==
    /\ aop = "find_arbitrage"
    /\ apc = "returned"
    /\ \E perm \in Permutations(1..Len(Flatten(results))) :
        LET again == WithEmpty(Group(Permuted(Flatten(results), perm)), clients)
        IN /\ results' = again
           /\ aret' = find_arbitrage(again, min_spread)
    /\ UNCHANGED << arbFrame, arbVars, clients, aop, apc, platforms_arg, tasks,
                    doneQueue, market_id, probe, callsLog >>

\* ------------------------------------------------------------------------
\* ConversationMemory as its owner drives it (src/agent/memory.py)
\* ------------------------------------------------------------------------
\* Bounds of the model: the largest capacity of the two structures, the
\* number of messages added and of markets tracked between two clears, and
\* the latest reading of the clock.
MaxCapacity == 2
MaxAdds == 3
MaxTracks == 4
MaxClock == 1

TrackedIds == {"A", "B", "C"}

PreferenceKeys == {"risk"}

\* The messages the owner adds.
AddedMessages ==
    { [role |-> "user", content |-> <<"q">>],
      [role |-> "assistant", content |-> TextA] }

MemIdle == {"idle", "raised"}

ContextKeys(ctx) == { ctx[i].market_id : i \in 1..Len(ctx) }

\* min(self._market_context.keys(), key=last_accessed): the first key, in
\* dict order, whose last_accessed is the least.
oldest_id(ctx) ==
    ctx[CHOOSE i \in 1..Len(ctx) :
            /\ \A j \in 1..Len(ctx) : ctx[i].last_accessed <= ctx[j].last_accessed
            /\ \A j \in 1..(i - 1) :
                  ctx[j].last_accessed # ctx[i].last_accessed].market_id

\* del self._market_context[oldest_id]
DictDel(ctx, id) == SelectSeq(ctx, LAMBDA e : e.market_id # id)

\* track_market on a market the map holds: last_accessed is refreshed, the
\* key keeps its place.
Refresh(ctx, id, now) ==
    [i \in 1..Len(ctx) |->
        IF ctx[i].market_id = id
        THEN [market_id |-> id, last_accessed |-> now]
        ELSE ctx[i]]

\* len(self._market_context) >= self.max_market_context
full(ctx, capacity) == Len(ctx) >= capacity

MemInit ==
    /\ max_market_context \in 0..MaxCapacity
    /\ market_context = <<>>
    /\ user_preferences = {}
    /\ session_start = 0
    /\ clock = 0
    /\ mem_pc = "idle"
    /\ mem_op = "none"
    /\ added = <<>>
    /\ tracked = <<>>

MemRests == MemInit /\ max_market_context = MaxCapacity

\* Time passes.
ClockAdvances ==
    /\ clock < MaxClock
    /\ clock' = clock + 1
    /\ UNCHANGED << memFrame, max_messages, memory, max_market_context,
                    market_context, user_preferences, session_start, mem_pc,
                    mem_op, added, tracked >>

\* datetime.now() is the naive local wall clock: it is set back at the end
\* of daylight saving time and by a clock adjustment.
ClockSetBack ==
    /\ clock > 0
    /\ clock' \in 0..(clock - 1)
    /\ UNCHANGED << memFrame, max_messages, memory, max_market_context,
                    market_context, user_preferences, session_start, mem_pc,
                    mem_op, added, tracked >>

\* add_user_message / add_assistant_message
AddMessage ==
    /\ mem_pc \in MemIdle
    /\ Len(added) < MaxAdds
    /\ \E msg \in AddedMessages :
        /\ memory' = IF msg.role = "user"
                     THEN add_user_message(memory, msg.content, max_messages)
                     ELSE add_assistant_message(memory, msg.content, max_messages)
        /\ added' = Append(added, msg)
    /\ mem_pc' = "idle"
    /\ mem_op' = "add_message"
    /\ UNCHANGED << memFrame, max_messages, max_market_context,
                    market_context, user_preferences, session_start, clock,
                    tracked >>

\* track_market(market_id, title, price)
TrackMarket(id) ==
    /\ mem_pc \in MemIdle
    /\ Len(tracked) < MaxTracks
    /\ mem_op' = "track_market"
    /\ IF id \in ContextKeys(market_context)
       THEN /\ market_context' = Refresh(market_context, id, clock)
            /\ tracked' = Append(tracked, id)
            /\ mem_pc' = "idle"
       ELSE IF full(market_context, max_market_context) /\ market_context = <<>>
       THEN \* min() of an empty sequence: ValueError
            /\ mem_pc' = "raised"
            /\ UNCHANGED << market_context, tracked >>
       ELSE /\ market_context' =
                 Append(IF full(market_context, max_market_context)
                        THEN DictDel(market_context, oldest_id(market_context))
                        ELSE market_context,
                        [market_id |-> id, last_accessed |-> clock])
            /\ tracked' = Append(tracked, id)
            /\ mem_pc' = "idle"
    /\ UNCHANGED << memFrame, max_messages, memory, max_market_context,
                    user_preferences, session_start, clock, added >>

TrackAnyMarket == \E id \in TrackedIds : TrackMarket(id)

TrackOneMarket == TrackMarket("A")

\* set_preference(key, value)
SetPreference ==
    /\ mem_pc \in MemIdle
    /\ \E key \in PreferenceKeys : user_preferences' = user_preferences \cup {key}
    /\ mem_pc' = "idle"
    /\ mem_op' = "set_preference"
    /\ UNCHANGED << memFrame, max_messages, memory, max_market_context,
                    market_context, session_start, clock, added, tracked >>

AfterMessagesClearedReturn == "idle"

\* What follows self._messages.clear() in clear().
AfterMessagesCleared == "clear_market_context"

\* clear() / reset_memory(): self._messages.clear()
ClearMessages ==
    /\ mem_pc \in MemIdle
    /\ memory' = <<>>
    /\ added' = <<>>
    /\ mem_pc' = AfterMessagesCleared
    /\ mem_op' = "clear"
    /\ UNCHANGED << memFrame, max_messages, max_market_context,
                    market_context, user_preferences, session_start, clock,
                    tracked >>

\* self._market_context.clear()
ClearMarketContext ==
    /\ mem_pc = "clear_market_context"
    /\ market_context' = <<>>
    /\ tracked' = <<>>
    /\ mem_pc' = "clear_preferences"
    /\ UNCHANGED << memFrame, max_messages, memory, max_market_context,
                    user_preferences, session_start, clock, mem_op, added >>

\* self._user_preferences.clear()
ClearPreferences ==
    /\ mem_pc = "clear_preferences"
    /\ user_preferences' = {}
    /\ mem_pc' = "clear_session"
    /\ UNCHANGED << memFrame, max_messages, memory, max_market_context,
                    market_context, session_start, clock, mem_op, added,
                    tracked >>

\* self._session_start = datetime.now(), and clear returns.
ClearSessionStart ==
    /\ mem_pc = "clear_session"
    /\ session_start' = clock
    /\ mem_pc' = "idle"
    /\ UNCHANGED << memFrame, max_messages, memory, max_market_context,
                    market_context, user_preferences, clock, mem_op, added,
                    tracked >>

\* ------------------------------------------------------------------------
\* Tool dispatch (src/agent/agent.py, tools.py, twitter_tools.py)
\* ------------------------------------------------------------------------
\* The twitter_tools set of _execute_tool, which is also the handlers dict of
\* TwitterTools.execute.
twitter_tools ==
    { "post_tweet", "post_thread", "reply_to_tweet", "quote_tweet",
      "search_prediction_market_tweets", "get_platform_tweets",
      "get_tweet_details", "get_mentions", "compose_market_tweet",
      "compose_arbitrage_tweet", "like_tweet", "retweet" }

\* The trading_tools set of _execute_tool, which is also its tool_map.
trading_tools ==
    { "execute_arbitrage_trade", "place_trade", "get_portfolio_status",
      "close_position", "check_risk_limits" }

\* AgentTools._handlers
market_handlers ==
    { "search_markets", "get_market_details", "get_price_history",
      "find_arbitrage", "get_trending_markets", "compare_markets",
      "analyze_market", "get_orderbook" }

\* The TwitterTools handlers that test is_available before they touch the
\* client.
write_tools ==
    { "post_tweet", "post_thread", "reply_to_tweet", "quote_tweet",
      "like_tweet", "retweet" }

TwitterStates == {"disabled", "unconfigured", "ready"}

\* The tool names the model asks for: one of each group, and one that no
\* group knows.
RequestedNames == {"search_markets", "post_tweet", "place_trade", "delete_market"}

\* What the model sends as the arguments of a call: an object the handler
\* accepts, an object that does not match the handler's parameters, or
\* (OpenAI: a string) text that is not JSON.
Valid == "valid"
Mismatch == "mismatch"
Unparseable == "unparseable"

ArgumentKinds(p) ==
    IF p = "anthropic" THEN {Valid, Mismatch} ELSE {Valid, Mismatch, Unparseable}

\* What the body of a handler does once it is entered: "fails" is a trading
\* handler returning its own {"success": False, "error": ...}.
Behaviours(name) ==
    IF name \in trading_tools THEN {"returns", "fails", "raises"}
    ELSE {"returns", "raises"}

\* Error texts and data
UnknownTool == "Unknown tool"
NotEnabled == "Twitter tools not enabled"
NotConfigured == "Twitter not configured"
TradingUnavailable == "Trading tools not available"
TradingError == "Trading tool error"
TypeError == "TypeError"
HandlerError == "handler error"
TradeFailed == "trade failed"
NoData == "no data"
Payload == "payload"
WholeDict == "the dict itself"

ToolResult(success, data, error) ==
    [success |-> success, data |-> data, error |-> error]

\* A Python dict with some of the keys success, data and error (and others).
Dict(keys, success, data, error) ==
    [keys |-> keys, success |-> success, data |-> data, error |-> error]

\* dict.get(key, default)
get(dict, key, default) == IF key \in dict.keys THEN dict[key] ELSE default

\* handlers[name](**arguments): the call raises TypeError when the arguments
\* do not bind; a write handler of an unavailable TwitterTools returns its
\* not-configured dict at once; otherwise the body runs.
call_handler(name, arguments, behaviour, available) ==
    IF arguments # Valid
    THEN [raised |-> TRUE, error |-> TypeError, value |-> NoData]
    ELSE IF name \in write_tools /\ ~available
    THEN [raised |-> FALSE, error |-> None,
          value |-> Dict({"posted", "error", "text"}, FALSE, NoData, NotConfigured)]
    ELSE IF behaviour = "raises"
    THEN [raised |-> TRUE, error |-> HandlerError, value |-> NoData]
    ELSE IF behaviour = "fails"
    THEN [raised |-> FALSE, error |-> None,
          value |-> Dict({"success", "error", "message"}, FALSE, NoData, TradeFailed)]
    ELSE [raised |-> FALSE, error |-> None,
          value |-> Dict({"success", "message"}, TRUE, Payload, None)]

\* What one executor did: the value it returned (or the exception that left
\* it), whether a handler was called and whether that call raised.
Ran(escaped, value, invoked, handler_raised) ==
    [escaped |-> escaped, value |-> value, invoked |-> invoked,
     handler_raised |-> handler_raised]

\* AgentTools.execute with the lookup taken for granted.
market_execute_any_name(name, arguments, behaviour) ==
    LET r == call_handler(name, arguments, behaviour, TRUE) IN
    IF r.raised
    THEN Ran(FALSE, ToolResult(FALSE, NoData, r.error), TRUE, TRUE)
    ELSE Ran(FALSE, ToolResult(TRUE, Payload, None), TRUE, FALSE)

\* AgentTools.execute
market_execute(name, arguments, behaviour) ==
    IF name \notin market_handlers
    THEN Ran(FALSE, ToolResult(FALSE, NoData, UnknownTool), FALSE, FALSE)
    ELSE LET r == call_handler(name, arguments, behaviour, TRUE) IN
         IF r.raised
         THEN Ran(FALSE, ToolResult(FALSE, NoData, r.error), TRUE, TRUE)
         ELSE Ran(FALSE, ToolResult(TRUE, Payload, None), TRUE, FALSE)

\* TwitterTools.execute without its try.
twitter_execute_no_try(name, arguments, behaviour, available) ==
    IF name \notin twitter_tools
    THEN Ran(FALSE, Dict({"success", "error"}, FALSE, NoData, UnknownTool), FALSE, FALSE)
    ELSE LET r == call_handler(name, arguments, behaviour, available) IN
         IF r.raised
         THEN Ran(TRUE, Dict({}, FALSE, NoData, r.error), TRUE, TRUE)
         ELSE Ran(FALSE, Dict({"success", "data"}, TRUE, r.value, None), TRUE, FALSE)

\* TwitterTools.execute: a dict, {"success": True, "data": result} around
\* whatever the handler returned.
twitter_execute(name, arguments, behaviour, available) ==
    IF name \notin twitter_tools
    THEN Ran(FALSE, Dict({"success", "error"}, FALSE, NoData, UnknownTool), FALSE, FALSE)
    ELSE LET r == call_handler(name, arguments, behaviour, available) IN
         IF r.raised
         THEN Ran(FALSE, Dict({"success", "error"}, FALSE, NoData, r.error), TRUE, TRUE)
         ELSE Ran(FALSE, Dict({"success", "data"}, TRUE, r.value, None), TRUE, FALSE)

\* _execute_tool, the twitter branch.
social_branch(name, arguments, behaviour, state) ==
    IF state = "disabled"
    THEN Ran(FALSE, ToolResult(FALSE, NoData, NotEnabled), FALSE, FALSE)
    ELSE LET ran == twitter_execute(name, arguments, behaviour, state = "ready")
             result == ran.value
         IN  IF ran.escaped THEN ran
             ELSE Ran(FALSE,
                      ToolResult(get(result, "success", TRUE),
                                 IF "data" \in result.keys THEN Payload ELSE WholeDict,
                                 get(result, "error", None)),
                      ran.invoked, ran.handler_raised)

\* _execute_tool, the trading branch: the import, the call and result.get
\* are inside one try.
trading_branch(name, arguments, behaviour, importable) ==
    IF ~importable
    THEN Ran(FALSE, ToolResult(FALSE, NoData, TradingUnavailable), FALSE, FALSE)
    ELSE LET r == call_handler(name, arguments, behaviour, TRUE) IN
         IF r.raised
         THEN Ran(FALSE, ToolResult(FALSE, NoData, TradingError), TRUE, TRUE)
         ELSE Ran(FALSE,
                  ToolResult(get(r.value, "success", TRUE), WholeDict,
                             get(r.value, "error", None)),
                  TRUE, FALSE)

\* The handler group _execute_tool routes a name to.
group_of(name) ==
    IF name \in twitter_tools THEN "social"
    ELSE IF name \in trading_tools THEN "trading"
    ELSE IF name \in market_handlers THEN "market"
    ELSE "none"

\* PredictionMarketAgent._execute_tool
execute_tool(name, arguments, behaviour, state, importable) ==
    IF name \in twitter_tools
    THEN social_branch(name, arguments, behaviour, state)
    ELSE IF name \in trading_tools
    THEN trading_branch(name, arguments, behaviour, importable)
    ELSE market_execute(name, arguments, behaviour)

\* The outcome the loop feeds to _tool_result_message.
outcome_of(result) == IF result.success THEN "ok" ELSE "error"

\* json.loads(tc.function.arguments) raises on text that is not JSON.
json_loads_raises(arguments) == arguments = Unparseable

\* _extract_tool_calls raises when one of the OpenAI argument strings does
\* not parse; block.input of Anthropic is an object already.
extract_raises(p, resp) ==
    /\ p = "openai"
    /\ \E i \in 1..Len(resp.arguments) : json_loads_raises(resp.arguments[i])

\* The tool calls with their arguments.
with_arguments(tool_calls, resp) ==
    [i \in 1..Len(tool_calls) |->
        [id |-> tool_calls[i].id, name |-> tool_calls[i].name,
         arguments |-> resp.arguments[i]]]

\* The tool-call responses of the model: every single call, and two pairs.
ToolResponses(p) ==
    { [text |-> <<>>, calls |-> <<n>>, arguments |-> <<a>>] :
        n \in RequestedNames, a \in ArgumentKinds(p) }
    \cup { [text |-> <<>>, calls |-> <<"delete_market", "search_markets">>,
            arguments |-> <<Valid, Valid>>],
           [text |-> <<>>, calls |-> <<"post_tweet", "place_trade">>,
            arguments |-> <<Mismatch, Valid>>] }

TextResponses(p) ==
    { [text |-> t, calls |-> <<>>, arguments |-> <<>>] : t \in TextBlockLists(p) }

ToolsInit ==
    /\ twitter_state \in TwitterStates
    /\ trading_importable \in BOOLEAN
    /\ dispatchLog = <<>>

\* The default agent: enable_twitter is True and no client is configured.
ToolsRests ==
    /\ ToolsInit
    /\ twitter_state = "unconfigured"
    /\ trading_importable = FALSE

\* chat: the turn whose dispatches are followed.
DispatchChat ==
    /\ turns = 0
    /\ \E msg \in UserMessages : StartTurn("chat", msg)

\* _run_agent_loop: one model call of the loop, with the arguments of the
\* tool calls.  An exception of _extract_tool_calls leaves the loop and chat
\* before anything is appended.
DispatchCallLLM ==
    /\ pc = "head"
    /\ LoopGuard(tool_calls_count, max_tool_calls)
    /\ \E resp \in TextResponses(provider) \cup ToolResponses(provider) :
        /\ llmLog' = Append(llmLog, LlmEntry("call", TRUE, FALSE, Len(resp.calls)))
        /\ IF extract_raises(provider, resp)
           THEN /\ pc' = "failed"
                /\ UNCHANGED << messages, pending, nextId, response_text >>
           ELSE LET tool_calls == extract_tool_calls(resp, nextId) IN
                IF tool_calls = <<>>
                THEN /\ response_text' = extract_text(resp)
                     /\ pc' = "return"
                     /\ UNCHANGED << messages, pending, nextId >>
                ELSE /\ messages' = Append(messages,
                                           response_to_message(provider, resp, nextId))
                     /\ pending' = with_arguments(tool_calls, resp)
                     /\ nextId' = nextId + Len(tool_calls)
                     /\ pc' = "exec"
                     /\ UNCHANGED response_text
    /\ UNCHANGED << aggVars, flatVars, arbVars, memVars, extVars, toolVars, configVars,
                    memory, turns, mode, user_message, tool_calls_count,
                    full_response, nchunks, yielded, execLog, appendLog,
                    returned >>

DispatchEntry(tool_call, behaviour, ran) ==
    [id |-> tool_call.id, name |-> tool_call.name,
     arguments |-> tool_call.arguments, group |-> group_of(tool_call.name),
     behaviour |-> behaviour, invoked |-> ran.invoked,
     handler_raised |-> ran.handler_raised, escaped |-> ran.escaped,
     success |-> IF ran.escaped THEN FALSE ELSE ran.value.success,
     error |-> ran.value.error,
     twitter |-> twitter_state, nmsgs |-> Len(messages)]

\* _run_agent_loop: the body of the for loop, _execute_tool and the append
\* of its result.
DispatchTool ==
    /\ pc = "exec"
    /\ mode = "chat"
    /\ LET tool_call == Head(pending) IN
       \E behaviour \in Behaviours(tool_call.name) :
        LET ran == execute_tool(tool_call.name, tool_call.arguments, behaviour,
                                twitter_state, trading_importable)
        IN  /\ dispatchLog' = Append(dispatchLog, DispatchEntry(tool_call, behaviour, ran))
            /\ IF ran.escaped
               THEN /\ pc' = "failed"
                    /\ UNCHANGED << messages, tool_calls_count, execLog, pending >>
               ELSE RunTool(outcome_of(ran.value))
    /\ UNCHANGED << aggVars, flatVars, arbVars, memVars, extVars, twitter_state,
                    trading_importable, configVars, memory, turns, mode,
                    user_message, nextId, response_text, full_response,
                    nchunks, yielded, llmLog, appendLog, returned >>

\* ------------------------------------------------------------------------
\* Trading tools and terminal (src/agent/trading_tools.py,
\* src/bin/trading_terminal.py)
\* ------------------------------------------------------------------------
\* Amounts are whole units; the drawdown ceiling is in percent.
MaxSize == 3
MaxOrders == 2

StartingBalance == 10
MaxDrawdownPercent == 20

TradePlatforms == {"polymarket", "kalshi"}
TradeSides == {"yes", "no"}

Position(id, platform, side, size, entry_price, price) ==
    [market_id |-> id, platform |-> platform, side |-> side, size |-> size,
     entry_price |-> entry_price, current_price |-> price]

\* A position a terminal can hold: bought at 1, now worth 0.
HeldPosition == Position("m1", "polymarket", "yes", 2, 1, 0)

Order(id, order_type, side, size) ==
    [market_id |-> id, platform |-> "polymarket", order_type |-> order_type,
     side |-> side, size |-> size, status |-> "pending"]

\* Position.unrealized_pnl
unrealized_pnl(p) ==
    IF p.side = "yes" THEN (p.current_price - p.entry_price) * p.size
    ELSE (p.entry_price - p.current_price) * p.size

RECURSIVE SumOver(_, _)
SumOver(s, i) == IF i > Len(s) THEN 0 ELSE s[i] + SumOver(s, i + 1)

\* sum(p.size * p.entry_price for p in self.positions)
current_exposure(ps) == SumOver([i \in 1..Len(ps) |-> ps[i].size * ps[i].entry_price], 1)

total_pnl(ps) == SumOver([i \in 1..Len(ps) |-> unrealized_pnl(ps[i])], 1)

\* RiskManager
check_position_size(size, limit) == size <= limit

check_total_exposure(exposure, new_size, limit) == exposure + new_size <= limit

should_stop_trading(current_pnl, starting_balance) ==
    IF starting_balance = 0 THEN FALSE
    ELSE Abs(current_pnl) * 100 >= MaxDrawdownPercent * starting_balance

\* What a terminal method did: its return value, the state it left and the
\* risk checks it ran and passed on the way.
Did(success, os, ps, balance, passed) ==
    [success |-> success, orders |-> os, positions |-> ps,
     balance |-> balance, passed |-> passed]

\* TradingTerminal.place_directional_trade: place_market_order and
\* place_limit_order raise ValueError when the wallet has no address.
place_directional_trade(platform, side, size, limit, os, ps, balance, size_limit, wallet) ==
    IF ~check_position_size(size, size_limit)
    THEN Did(FALSE, os, ps, balance, {})
    ELSE IF platform = "polymarket"
    THEN IF ~wallet
         THEN Did(FALSE, os, ps, balance, {"position_size"})
         ELSE Did(TRUE,
                  Append(os, Order("m1", IF limit THEN "limit" ELSE "market",
                                   IF side = "yes" THEN "buy" ELSE "sell", size)),
                  ps, balance, {"position_size"})
    ELSE Did(FALSE, os, ps, balance, {"position_size"})

\* TradingTerminal.execute_arbitrage: the buy leg is appended to orders
\* before market_b['market_id'] is read for the sell leg; a KeyError there
\* is caught by the except of the method.
execute_arbitrage(opp, os, ps, balance, size_limit, exposure_limit, wallet) ==
    IF ~check_position_size(opp.size, size_limit)
    THEN Did(FALSE, os, ps, balance, {})
    ELSE IF ~check_total_exposure(current_exposure(ps), opp.size, exposure_limit)
    THEN Did(FALSE, os, ps, balance, {"position_size"})
    ELSE LET passed == {"position_size", "exposure"}
             buy == IF opp.a_platform = "polymarket"
                    THEN <<Order("m1", "market", "buy", opp.size)>> ELSE <<>>
         IN  IF buy # <<>> /\ ~wallet
             THEN Did(FALSE, os, ps, balance, passed)
             ELSE IF opp.b_platform # "polymarket"
             THEN Did(TRUE, os \o buy, ps, balance, passed)
             ELSE IF ~opp.b_has_id \/ ~wallet
             THEN Did(FALSE, os \o buy, ps, balance, passed)
             ELSE Did(TRUE, os \o buy \o <<Order("m2", "market", "sell", opp.size)>>,
                      ps, balance, passed)

\* list.remove: the first equal element.
RECURSIVE Remove(_, _)
Remove(s, x) ==
    IF s = <<>> THEN <<>>
    ELSE IF Head(s) = x THEN Tail(s)
    ELSE <<Head(s)>> \o Remove(Tail(s), x)

\* TradingTerminal.close_position, for a position of the list.
terminal_close_position(position, os, ps, balance, wallet) ==
    IF position.platform = "polymarket" /\ ~wallet
    THEN Did(FALSE, os, ps, balance, {})
    ELSE Did(TRUE,
             IF position.platform = "polymarket"
             THEN Append(os, Order(position.market_id, "market",
                                   IF position.side = "yes" THEN "sell" ELSE "buy",
                                   position.size))
             ELSE os,
             Remove(ps, position),
             balance + unrealized_pnl(position),
             {})

\* trading_tools.close_position: the first position of the market, or a
\* negative result when there is none.
FirstOf(ps, id) ==
    LET hits == { i \in 1..Len(ps) : ps[i].market_id = id } IN
    IF hits = {} THEN 0 ELSE CHOOSE i \in hits : \A j \in hits : i <= j

close_position(id, os, ps, balance, wallet) ==
    IF FirstOf(ps, id) = 0
    THEN Did(FALSE, os, ps, balance, {})
    ELSE terminal_close_position(ps[FirstOf(ps, id)], os, ps, balance, wallet)

\* The opportunities the model can send: the platform of each leg, whether
\* market_b carries a market_id, and the size.
Opportunities ==
    [a_platform : TradePlatforms, b_platform : TradePlatforms,
     b_has_id : BOOLEAN, size : 1..MaxSize]

NoTrade == [tool |-> "none"]

TradeInit ==
    /\ wallet_configured \in BOOLEAN
    /\ max_position_size \in 1..MaxSize
    /\ max_total_exposure \in 1..MaxSize
    /\ orders = <<>>
    /\ positions \in {<<>>, <<HeldPosition>>}
    /\ current_balance = StartingBalance
    /\ last_trade = NoTrade

\* A terminal nobody has used, with the default order of the two ceilings.
TradeRests ==
    /\ TradeInit
    /\ ~wallet_configured
    /\ max_position_size = 1
    /\ max_total_exposure = MaxSize
    /\ positions = <<>>

\* The record of a trading tool call: the request, the state before it, the
\* truth of each ceiling for the request, and what the call did.
TradeEntry(tool, size, added_exposure, did) ==
    [tool |-> tool, size |-> size, success |-> did.success,
     placed |-> Len(did.orders) - Len(orders), passed |-> did.passed,
     size_ok |-> check_position_size(size, max_position_size),
     exposure_ok |-> check_total_exposure(current_exposure(positions),
                                          added_exposure, max_total_exposure),
     drawdown_ok |-> ~should_stop_trading(total_pnl(positions), StartingBalance),
     before |-> [orders |-> orders, positions |-> positions,
                 balance |-> current_balance]]

Applied(tool, size, added_exposure, did) ==
    /\ Len(did.orders) <= MaxOrders
    /\ orders' = did.orders
    /\ positions' = did.positions
    /\ current_balance' = did.balance
    /\ last_trade' = TradeEntry(tool, size, added_exposure, did)
    /\ UNCHANGED << agentVars, aggVars, flatVars, arbVars, memVars, toolVars,
                    regVars, srvVars, wallet_configured, max_position_size,
                    max_total_exposure >>

\* The tool place_trade
PlaceTrade ==
    \E platform \in TradePlatforms, side \in TradeSides, size \in 1..MaxSize,
       limit \in BOOLEAN :
        Applied("place_trade", size, size,
                place_directional_trade(platform, side, size, limit, orders,
                                        positions, current_balance,
                                        max_position_size, wallet_configured))

\* The tool execute_arbitrage_trade
ExecuteArbitrageTrade ==
    \E opp \in Opportunities :
        Applied("execute_arbitrage_trade", opp.size, opp.size,
                execute_arbitrage(opp, orders, positions, current_balance,
                                  max_position_size, max_total_exposure,
                                  wallet_configured))

\* The tool close_position
ClosePosition ==
    \E id \in {"m1", "m2"} :
        Applied("close_position",
                IF FirstOf(positions, id) = 0 THEN 0
                ELSE positions[FirstOf(positions, id)].size,
                0,
                close_position(id, orders, positions, current_balance,
                               wallet_configured))

\* ------------------------------------------------------------------------
\* The tool registry and its two dialects (src/agent/tools.py,
\* twitter_tools.py, trading_tools.py, agent.py)
\* ------------------------------------------------------------------------
\* A tool definition: a dict with a name, a description and its JSON schema
\* under the key schema_key.
Definition(name, schema_key) ==
    [name |-> name, description |-> <<"about", name>>, schema_key |-> schema_key,
     schema |-> <<"schema of", name>>]

Definitions(names, schema_key) ==
    [i \in 1..Len(names) |-> Definition(names[i], schema_key)]

\* tools.py: the market tools, under "parameters".
MARKET_TOOL_DEFINITIONS ==
    Definitions(<< "search_markets", "get_market_details", "get_price_history",
                   "find_arbitrage", "get_trending_markets", "compare_markets",
                   "analyze_market", "get_orderbook" >>, "parameters")

\* trading_tools.py: the trading tools, under "input_schema".
TRADING_TOOLS ==
    Definitions(<< "execute_arbitrage_trade", "place_trade",
                   "get_portfolio_status", "close_position",
                   "check_risk_limits" >>, "input_schema")

\* twitter_tools.py: the social tools, under "parameters".
TWITTER_TOOL_DEFINITIONS ==
    Definitions(<< "post_tweet", "post_thread", "reply_to_tweet", "quote_tweet",
                   "search_prediction_market_tweets", "get_platform_tweets",
                   "get_tweet_details", "get_mentions", "compose_market_tweet",
                   "compose_arbitrage_tweet", "like_tweet", "retweet" >>,
                "parameters")

\* tools.py: TOOL_DEFINITIONS once the module is loaded.
TOOL_DEFINITIONS(enabled) ==
    MARKET_TOOL_DEFINITIONS \o (IF enabled THEN TRADING_TOOLS ELSE <<>>)

\* PredictionMarketAgent._get_all_tool_definitions
get_all_tool_definitions(enabled, state) ==
    TOOL_DEFINITIONS(enabled)
        \o (IF state # "disabled" THEN TWITTER_TOOL_DEFINITIONS ELSE <<>>)

\* t["parameters"] raises KeyError when the dict has no such key.
has_parameters(t) == t.schema_key = "parameters"

\* One element of _get_anthropic_tools / _get_openai_tools.
translate(dialect, t) ==
    IF dialect = "anthropic"
    THEN [name |-> t.name, description |-> t.description,
          input_schema |-> t.schema]
    ELSE [type |-> "function",
          function |-> [name |-> t.name, description |-> t.description,
                        parameters |-> t.schema]]

RegInit ==
    /\ trading_enabled \in BOOLEAN
    /\ reg_dialect = "anthropic"
    /\ registry = <<>>
    /\ translated = <<>>
    /\ reg_pc = "idle"

RegRests ==
    /\ RegInit
    /\ trading_enabled = FALSE

regFrame ==
    << agentVars, aggVars, flatVars, arbVars, memVars, toolVars, tradeVars,
       srvVars >>

\* _get_anthropic_tools / _get_openai_tools: the registry is read.
GetTools ==
    /\ reg_pc \in {"idle", "returned", "raised"}
    /\ \E dialect \in Providers :
        /\ reg_dialect' = dialect
        /\ \/ reg_pc = "idle"
           \/ dialect # reg_dialect
    /\ registry' = get_all_tool_definitions(trading_enabled, twitter_state)
    /\ translated' = <<>>
    /\ reg_pc' = "translating"
    /\ UNCHANGED << regFrame, trading_enabled >>

\* The list comprehension translates the next definition.
TranslateNext ==
    /\ reg_pc = "translating"
    /\ Len(translated) < Len(registry)
    /\ LET t == registry[Len(translated) + 1] IN
        IF has_parameters(t)
        THEN /\ translated' = Append(translated, translate(reg_dialect, t))
             /\ reg_pc' = reg_pc
        ELSE /\ translated' = translated
             /\ reg_pc' = "raised"
    /\ UNCHANGED << regFrame, trading_enabled, reg_dialect, registry >>

TranslateReturns ==
    /\ reg_pc = "translating"
    /\ Len(translated) = Len(registry)
    /\ reg_pc' = "returned"
    /\ UNCHANGED << regFrame, trading_enabled, reg_dialect, registry, translated >>

\* ------------------------------------------------------------------------
\* Trading engine and its monitor threads (src/bin/trading_engine.py,
\* src/bin/api_server.py)
\* ------------------------------------------------------------------------
\* One registered agent with the arbitrage strategy; all trades fall on one
\* day.
MaxMonitors == 2
MaxDailyTrades == 2

\* The trade_result appended by execute_arbitrage_trade, reduced to the
\* thread that made it.
TradeResult(t) == [success |-> TRUE, by |-> t]

\* run_strategy_cycle: the trades of today
daily_trades(ps) == Len(ps)

EngineInit ==
    /\ agent_active = FALSE
    /\ agent_max_trades \in 1..MaxDailyTrades
    /\ agent_positions = <<>>
    /\ monitors = <<>>

EngineRests ==
    /\ EngineInit
    /\ agent_max_trades = 1

engFrame ==
    << agentVars, aggVars, flatVars, arbVars, memVars, toolVars, tradeVars,
       regVars, dbVars >>

\* POST /api/agent/activate: the engine sets the flag and the route starts a
\* new agent_monitor thread, whatever threads already run.
activate_agent ==
    /\ Len(monitors) < MaxMonitors
    /\ agent_active' = TRUE
    /\ monitors' = Append(monitors, "top")
    /\ UNCHANGED << engFrame, agent_max_trades, agent_positions >>

\* POST /api/agent/deactivate
deactivate_agent ==
    /\ agent_active
    /\ agent_active' = FALSE
    /\ UNCHANGED << engFrame, agent_max_trades, agent_positions, monitors >>

MonitorMoves(t, to) ==
    /\ monitors' = [monitors EXCEPT ![t] = to]
    /\ UNCHANGED << engFrame, agent_active, agent_max_trades >>

\* agent_monitor, top of the while loop: the thread ends when the agent is
\* not active, else it enters run_strategy_cycle.
MonitorTop(t) ==
    /\ monitors[t] = "top"
    /\ MonitorMoves(t, IF agent_active THEN "cycle" ELSE "stopped")
    /\ UNCHANGED agent_positions

\* run_strategy_cycle up to the max_trades test: the flag is read again, the
\* trades of today are counted and compared.
CycleCheck(t) ==
    /\ monitors[t] = "cycle"
    /\ MonitorMoves(t, IF ~agent_active THEN "sleeping"
                       ELSE IF daily_trades(agent_positions) >= agent_max_trades
                            THEN "sleeping"
                            ELSE "scanning")
    /\ UNCHANGED agent_positions

\* scan_arbitrage_opportunities: a network fetch that finds opportunities or
\* none.
Scan(t) ==
    /\ monitors[t] = "scanning"
    /\ \E found \in BOOLEAN :
        MonitorMoves(t, IF found THEN "executing" ELSE "sleeping")
    /\ UNCHANGED agent_positions

\* execute_arbitrage_trade: the two orders go out, and the result is
\* appended to agent_positions unless an exception was caught on the way.
ExecuteTrade(t) ==
    /\ monitors[t] = "executing"
    /\ \E raised \in BOOLEAN :
        agent_positions' = IF raised THEN agent_positions
                           ELSE Append(agent_positions, TradeResult(t))
    /\ MonitorMoves(t, "sleeping")

\* time.sleep ends.
Wake(t) ==
    /\ monitors[t] = "sleeping"
    /\ MonitorMoves(t, "top")
    /\ UNCHANGED agent_positions

\* ------------------------------------------------------------------------
\* Database (src/database.py)
\* ------------------------------------------------------------------------
MaxSaves == 3

DbAgents == {"a1", "a2"}

\* The trade dicts handed to save_trade: agent_id and size always there, the
\* other keys as the caller chose.
TradeDicts ==
    { [keys |-> {"agent_id", "size"} \cup ks, agent_id |-> a, size |-> s,
       total_volume |-> 3, platform_fee |-> 1, net_profit |-> 1] :
        ks \in SUBSET {"market", "total_volume", "platform_fee", "net_profit"},
        a \in DbAgents, s \in 1..2 }

AgentStatsRow(total_trades, total_volume, platform_fees_paid, net_profit) ==
    [total_trades |-> total_trades, total_volume |-> total_volume,
     platform_fees_paid |-> platform_fees_paid, net_profit |-> net_profit]

SystemStatsRow(total_trades, total_volume, total_fees_collected) ==
    [total_trades |-> total_trades, total_volume |-> total_volume,
     total_fees_collected |-> total_fees_collected]

\* SELECT COALESCE(SUM(column), 0) FROM trades
RECURSIVE SumColumn(_, _)
SumColumn(rows, column) ==
    IF rows = <<>> THEN 0
    ELSE Head(rows)[column] + SumColumn(Tail(rows), column)

RowsOf(rows, a) == SelectSeq(rows, LAMBDA r : r.agent_id = a)

\* Database._update_agent_stats: the row of the agent is recomputed from the
\* trades table.
update_agent_stats(stats, rows, a) ==
    [stats EXCEPT ![a] =
        AgentStatsRow(Len(RowsOf(rows, a)),
                      SumColumn(RowsOf(rows, a), "total_volume"),
                      SumColumn(RowsOf(rows, a), "platform_fee"),
                      SumColumn(RowsOf(rows, a), "net_profit"))]

\* Database._update_system_stats: the row is incremented from the dict.
update_system_stats(stats, trade) ==
    SystemStatsRow(stats.total_trades + 1,
                   stats.total_volume + get(trade, "total_volume", 0),
                   stats.total_fees_collected + get(trade, "platform_fee", 0))

\* Database.save_trade at the millisecond ms: the row inserted, the stats
\* updated and True returned, or an exception caught and False returned
\* (trade['market'] missing, or the trade_id already in the table).
save_trade(rows, astats, sstats, trade, ms) ==
    LET trade_id == << trade.agent_id, ms >>
        row == [trade_id |-> trade_id, agent_id |-> trade.agent_id,
                total_volume |-> get(trade, "total_volume", trade.size * 2),
                platform_fee |-> get(trade, "platform_fee", 0),
                net_profit |-> get(trade, "net_profit", 0)]
    IN  IF \/ "market" \notin trade.keys
           \/ \E i \in 1..Len(rows) : rows[i].trade_id = trade_id
        THEN [trades |-> rows, agent_stats |-> astats, system_stats |-> sstats,
              returned |-> FALSE]
        ELSE [trades |-> Append(rows, row),
              agent_stats |-> update_agent_stats(astats, Append(rows, row),
                                                 trade.agent_id),
              system_stats |-> update_system_stats(sstats, trade),
              returned |-> TRUE]

\* _init_db and register_agent for each agent.
DbInit ==
    /\ trades = <<>>
    /\ agent_stats = [a \in DbAgents |-> AgentStatsRow(0, 0, 0, 0)]
    /\ system_stats = SystemStatsRow(0, 0, 0)
    /\ now_ms = 0
    /\ db_calls = 0
    /\ save_returned = "None"

DbRests == DbInit

dbFrame ==
    << agentVars, aggVars, flatVars, arbVars, memVars, toolVars, tradeVars,
       regVars, engVars >>

\* One call of save_trade, in the millisecond of the previous call or later.
SaveTrade ==
    /\ db_calls < MaxSaves
    /\ \E trade \in TradeDicts, ms \in now_ms..(now_ms + 1) :
        LET saved == save_trade(trades, agent_stats, system_stats, trade, ms) IN
        /\ trades' = saved.trades
        /\ agent_stats' = saved.agent_stats
        /\ system_stats' = saved.system_stats
        /\ save_returned' = IF saved.returned THEN "True" ELSE "False"
        /\ now_ms' = ms
    /\ db_calls' = db_calls + 1
    /\ UNCHANGED dbFrame

\* ------------------------------------------------------------------------
\* Specifications
\* ------------------------------------------------------------------------
\* The agent while the aggregator rests, and the aggregator while the agent
\* rests.
AgentRests ==
    /\ AgentInit
    /\ provider = "anthropic"
    /\ max_tool_calls = 0

AggregatorRests ==
    /\ AggInit
    /\ clients = PlatformOrder

\* Everything outside the agent turn and the aggregator rests.
ExtRests == TradeRests /\ RegRests /\ EngineRests /\ DbRests

LibRests == FlatRests /\ ArbRests /\ MemRests /\ ToolsRests /\ ExtRests

InitAgent == AgentInit /\ AggregatorRests /\ LibRests

NextAgent ==
    \/ Chat
    \/ ChatStream
    \/ AgentStep
    \/ StreamAbandoned

SpecAgent == InitAgent /\ [][NextAgent]_vars

\* One turn of an agent whose earlier turns left an empty history, the user
\* message of a failed turn, or a completed exchange.
Histories ==
    { <<>>,
      add_user_message(<<>>, <<"q">>, DefaultMaxMessages),
      add_assistant_message(add_user_message(<<>>, <<"q">>, DefaultMaxMessages),
                            TextA, DefaultMaxMessages) }

InitTurn ==
    /\ provider \in Providers
    /\ max_tool_calls \in 0..MaxBudget
    /\ max_messages = DefaultMaxMessages
    /\ memory \in Histories
    /\ AgentIdle
    /\ AggregatorRests
    /\ LibRests

NextTurn ==
    \/ turns = 0 /\ Chat
    \/ turns = 0 /\ ChatStream
    \/ AgentStep
    \/ StreamAbandoned

SpecTurn == InitTurn /\ [][NextTurn]_vars

InitAggregator == AggInit /\ AgentRests /\ LibRests

NextAggregator ==
    \/ StartSearch
    \/ SourceSettles
    \/ CollectResult
    \/ ReturnResults
    \/ GatherReturns
    \/ StartGetMarket
    \/ DirectLookup
    \/ ProbeClient
    \/ ProbeExhausted

SpecAggregator == InitAggregator /\ [][NextAggregator]_vars

InitFlat == AggInit /\ AgentRests /\ FlatInit /\ ArbRests /\ MemRests /\ ToolsRests /\ ExtRests

NextFlat ==
    \/ SearchAllFlat
    \/ FlatSearchReturns
    \/ FlatInterleave

SpecFlat == InitFlat /\ [][NextFlat]_vars

InitArb == AggInit /\ AgentRests /\ FlatRests /\ ArbInit /\ MemRests /\ ToolsRests /\ ExtRests

NextArb ==
    \/ FindArbitrage
    \/ ArbSearchReturns
    \/ ArbMatch
    \/ ArbRerun

SpecArb == InitArb /\ [][NextArb]_vars

\* The memory alone: the agent's configuration is at rest, the capacity of
\* the message buffer is any small one.
MemoryAlone ==
    /\ provider = "anthropic"
    /\ max_tool_calls = 0
    /\ AgentFresh
    /\ AggregatorRests
    /\ FlatRests
    /\ ArbRests
    /\ ToolsRests
    /\ ExtRests

\* The buffer, the preferences and clear(), with one tracked market.
InitMemory ==
    /\ MemoryAlone
    /\ max_messages \in 0..MaxCapacity
    /\ MemInit

NextMemory ==
    \/ ClockAdvances
    \/ ClockSetBack
    \/ AddMessage
    \/ TrackOneMarket
    \/ SetPreference
    \/ ClearMessages
    \/ ClearMarketContext
    \/ ClearPreferences
    \/ ClearSessionStart

SpecMemory == InitMemory /\ [][NextMemory]_vars

\* The market-context map under track_market.
InitTracking ==
    /\ MemoryAlone
    /\ max_messages = DefaultMaxMessages
    /\ MemInit

NextTracking ==
    \/ ClockAdvances
    \/ ClockSetBack
    \/ TrackAnyMarket

SpecTracking == InitTracking /\ [][NextTracking]_vars

\* One blocking turn with the tool router behind it, for every provider,
\* budget and configuration of the social and trading tools.
InitTools ==
    /\ AgentInit
    /\ AggregatorRests
    /\ FlatRests
    /\ ArbRests
    /\ MemRests
    /\ ToolsInit
    /\ ExtRests

NextTools ==
    \/ DispatchChat
    \/ DispatchCallLLM
    \/ DispatchTool
    \/ FinalCall
    \/ FinishTurn

SpecTools == InitTools /\ [][NextTools]_vars

\* Everything but the part under study at rest.
AllButExt ==
    /\ AgentRests
    /\ AggregatorRests
    /\ FlatRests
    /\ ArbRests
    /\ MemRests
    /\ ToolsRests

\* The trading tools over one terminal.
InitTrading == AllButExt /\ TradeInit /\ RegRests /\ EngineRests /\ DbRests

NextTrading ==
    \/ PlaceTrade
    \/ ExecuteArbitrageTrade
    \/ ClosePosition

SpecTrading == InitTrading /\ [][NextTrading]_vars

\* The registry and its translation, for every configuration of the social
\* and trading tools.
InitRegistry ==
    /\ AgentRests
    /\ AggregatorRests
    /\ FlatRests
    /\ ArbRests
    /\ MemRests
    /\ ToolsInit
    /\ trading_importable = FALSE
    /\ TradeRests
    /\ RegInit
    /\ EngineRests
    /\ DbRests

NextRegistry ==
    \/ GetTools
    \/ TranslateNext
    \/ TranslateReturns

SpecRegistry == InitRegistry /\ [][NextRegistry]_vars

\* The engine of one agent under activate, deactivate and its monitor
\* threads, every interleaving of their steps.
InitEngine == AllButExt /\ TradeRests /\ RegRests /\ EngineInit /\ DbRests

NextEngine ==
    \/ activate_agent
    \/ deactivate_agent
    \/ \E t \in 1..Len(monitors) : MonitorTop(t)
    \/ \E t \in 1..Len(monitors) : CycleCheck(t)
    \/ \E t \in 1..Len(monitors) : Scan(t)
    \/ \E t \in 1..Len(monitors) : ExecuteTrade(t)
    \/ \E t \in 1..Len(monitors) : Wake(t)

SpecEngine == InitEngine /\ [][NextEngine]_vars

\* The database under a sequence of save_trade calls.
InitDatabase == AllButExt /\ TradeRests /\ RegRests /\ EngineRests /\ DbInit

NextDatabase == SaveTrade

SpecDatabase == InitDatabase /\ [][NextDatabase]_vars

\* ------------------------------------------------------------------------
\* Properties of the agent loop
\* ------------------------------------------------------------------------
RECURSIVE Concat(_)
Concat(frags) ==
    IF frags = <<>> THEN EmptyStr ELSE Head(frags) \o Concat(Tail(frags))

Last(s) == s[Len(s)]

\* The tool-execution rounds of the turn: the model responses whose tool calls
\* were executed.
Rounds == Cardinality({ execLog[i].nllm : i \in 1..Len(execLog) })

ExecutedIds == { execLog[i].id : i \in 1..Len(execLog) }

PendingIds == { pending[i].id : i \in 1..Len(pending) }

Exhausted == ~LoopGuard(tool_calls_count, max_tool_calls)

InTurn == pc \notin ({"idle"} \cup Terminal)

\* Steps left before the turn ends once no further round can start.
Rank ==
    CASE pc = "head" -> MaxChunks + 4
      [] pc = "final_stream" -> MaxChunks + 3
      [] pc = "streaming" -> MaxChunks + 2 - nchunks
      [] pc = "return" -> 1
      [] OTHER -> 0

AfterLoop ==
    \/ pc = "head" /\ Exhausted
    \/ pc \in {"final_stream", "streaming", "return"}

C1_State ==
    /\ Rounds <= max_tool_calls
    /\ \A i \in 1..Len(execLog) :
          /\ llmLog[execLog[i].nllm].count < max_tool_calls
          /\ ~llmLog[execLog[i].nllm].final
    /\ \A i \in 1..Len(llmLog) :
          llmLog[i].final => /\ i = Len(llmLog)
                             /\ llmLog[i].nexec = Len(execLog)
                             /\ pc \notin {"exec", "suspended"}
    /\ AfterLoop => pending = <<>>
    /\ InTurn => ENABLED AgentStep
    /\ (pc = "done" /\ mode = "chat") => returned = response_text

\* C1: in one turn of the blocking or the streaming loop the number of
\* tool-execution rounds never exceeds max_tool_calls; every executed tool call
\* belongs to a round that started under the budget; once the budget is
\* exhausted no tool call is executed any more and every step brings the turn
\* strictly closer to its end (a step is always possible until then), which
\* for chat is the return of the extracted text.
C1_BudgetInvariant ==
    /\ []C1_State
    /\ [][AfterLoop => /\ Rank' < Rank
                       /\ execLog' = execLog
                       /\ pc' \notin {"exec", "suspended"}]_vars

\* A turn that used its whole budget in as many rounds and then ended.
C1_Witness ==
    /\ pc = "done"
    /\ max_tool_calls = MaxBudget
    /\ Rounds = max_tool_calls
    /\ Len(llmLog) = Rounds + 1
    /\ Last(llmLog).final

\* C2: whenever a model call is issued, every tool call id of the assistant
\* messages in the in-flight list has exactly one tool-result message carrying
\* that id in the list; the loop is never at a point where it calls the model
\* with a tool call unanswered.
C2_ResultPairing ==
    /\ \A i \in 1..Len(llmLog) : llmLog[i].paired
    /\ pc \in {"head", "final_stream", "streaming", "return"} => Paired(messages)
    /\ \A id \in ExecutedIds : ResultCount(messages, id) = 1
    /\ \A id \in PendingIds : ResultCount(messages, id) = 0

\* A model call issued after a round of two tool calls, one of which failed.
C2_Witness ==
    /\ Len(llmLog) >= 2
    /\ Last(llmLog).nexec >= 2
    /\ Last(llmLog).paired
    /\ Cardinality(CallIds(messages)) >= 2
    /\ \E i \in 1..Len(execLog) : execLog[i].outcome = "error"

\* C3 (as claimed): when the budget of a chat turn is exhausted, the turn ends
\* after exactly one more blocking model call, and that call is made without
\* the tool schemas.
C3_FinalCallOmitsTools ==
    (pc = "done" /\ mode = "chat" /\ Exhausted) =>
        /\ Cardinality({ i \in 1..Len(llmLog) : llmLog[i].final }) = 1
        /\ Last(llmLog).final
        /\ Last(llmLog).api = "call"
        /\ ~Last(llmLog).tools

\* C4: the counter counts completed tool calls; the budget is compared only
\* at the head of the loop, so every tool call of a response is executed, also
\* when the counter passes the budget inside the round; a round starts only
\* under the budget, and after the last round the final answer call is made.
C4_BudgetCheckedPerRound ==
    /\ tool_calls_count = Len(execLog)
    /\ InTurn \/ pc = "done" => CallIds(messages) = ExecutedIds \cup PendingIds
    /\ ExecutedIds \cap PendingIds = {}
    /\ pc \in {"head", "final_stream", "streaming", "return", "done"} =>
          ExecutedIds = CallIds(messages)
    /\ \A i \in 1..Len(execLog) :
          llmLog[execLog[i].nllm].count < max_tool_calls
    /\ (pc \in {"return", "done"} /\ Exhausted) =>
          /\ Last(llmLog).final
          /\ Last(llmLog).count = tool_calls_count
          /\ Last(llmLog).nexec = Len(execLog)

\* Budget 1, two tool calls in the first response: both ran, then the final
\* call was made.
C4_Witness ==
    /\ pc = "done"
    /\ max_tool_calls = 1
    /\ tool_calls_count = 2
    /\ Rounds = 1
    /\ Len(llmLog) = 2
    /\ Last(llmLog).final

\* C5: a turn that completes has appended its assistant output exactly once,
\* after the loop finished, and the content is the returned text (chat) or
\* the concatenation of all yielded fragments (chat_stream); it is the newest
\* message of the memory.
C5_AppendedOnce ==
    /\ pc = "done" =>
          /\ Len(appendLog) = 1
          /\ appendLog[1] = IF mode = "chat" THEN returned ELSE Concat(yielded)
          /\ Last(memory) =
                [role |-> "assistant",
                 content |-> IF mode = "chat" THEN returned ELSE Concat(yielded)]
    /\ pc # "done" => appendLog = <<>>
    /\ pc # "done" => returned = None

\* A streamed turn with a progress fragment and two model fragments.
C5_Witness ==
    /\ pc = "done"
    /\ mode = "stream"
    /\ Len(yielded) >= 3
    /\ nchunks >= 2
    /\ Len(execLog) >= 1
    /\ turns = 2

\* C6: a failing model call ends the turn with the failure: it is the last
\* model call of the turn (no retry, no further call), no tool runs after it,
\* chat returns nothing and appends no assistant message.
C6_FailurePropagates ==
    /\ \A i \in 1..Len(llmLog) :
          llmLog[i].ncalls = -1 =>
              /\ pc = "failed"
              /\ i = Len(llmLog)
              /\ llmLog[i].nexec = Len(execLog)
    /\ pc = "failed" => /\ returned = None
                        /\ appendLog = <<>>
                        /\ Last(memory).role = "user"

\* The second model call of a chat turn failed, after a tool round.
C6_Witness ==
    /\ pc = "failed"
    /\ mode = "chat"
    /\ Len(llmLog) = 2
    /\ Last(llmLog).ncalls = -1
    /\ Len(execLog) >= 1

\* ------------------------------------------------------------------------
\* Properties of the aggregator
\* ------------------------------------------------------------------------
TasksOf(p) == { i \in 1..Len(tasks) : tasks[i].platform = p }

\* What the task's source delivered: nothing if it raised.
Delivered(i) == IF tasks[i].raised THEN <<>> ELSE tasks[i].answer

RaisedTasks == { i \in 1..Len(tasks) : tasks[i].raised }

Searching == aop \in SearchOps

\* C7: whatever sources raise, search_all and get_trending_all (sync and
\* async) succeed: the call itself raises only when there is no source at all,
\* and the returned map has an entry for every submitted source, [] for a
\* source that raised and the delivered markets for every other one.
C7_SourceIsolation ==
    /\ (Searching /\ apc = "raised") => (tasks = <<>> /\ clients = <<>>)
    /\ (Searching /\ apc = "returned") =>
          \A i \in 1..Len(tasks) :
              /\ tasks[i].platform \in Keys(aret)
              /\ Lookup(aret, tasks[i].platform) \in
                    { Delivered(j) : j \in TasksOf(tasks[i].platform) }

\* All four sources configured and searched, exactly one raised, the others
\* delivered markets.
C7_Witness ==
    /\ aop = "search_all"
    /\ apc = "returned"
    /\ clients = PlatformOrder
    /\ Len(tasks) = 4
    /\ Cardinality(RaisedTasks) = 1
    /\ \A i \in 1..Len(tasks) : ~tasks[i].raised => tasks[i].answer # <<>>
    /\ \E i \in RaisedTasks : Lookup(aret, tasks[i].platform) = <<>>

\* C8: the map is returned only when every per-source task has settled, and
\* then holds exactly one entry per targeted configured source, in every
\* order of completion; until then the caller has nothing.
C8_AllSettledBeforeReturn ==
    /\ (Searching /\ apc = "returned") =>
          /\ AllSettled(tasks)
          /\ Keys(aret) = Range(target_platforms(platforms_arg, clients))
                            \cap Range(clients)
          /\ Len(aret) = Cardinality(Keys(aret))
    /\ (Searching /\ apc = "running") => aret = NotReturned

\* Four sources that completed in another order than they were submitted.
C8_Witness ==
    /\ aop = "search_all"
    /\ apc = "returned"
    /\ Len(tasks) = 4
    /\ Len(aret) = 4
    /\ aret[1].platform # tasks[1].platform
    /\ aret[4].platform = tasks[2].platform

\* C9 (as claimed): a lookup whose market_id carries the prefix of a
\* configured source calls that source's client only.
C9_OnlyDetectedClient ==
    (aop = "get_market" /\ detect_platform(market_id) \in Range(clients)) =>
        \A i \in 1..Len(callsLog) :
            callsLog[i].platform = detect_platform(market_id)

Unrecognized == aop = "get_market" /\ detect_platform(market_id) = None

\* C10: with an unrecognized prefix the clients are probed one at a time in
\* the order of self.clients, probing stops at the first hit, which is
\* returned; when every client raised the result is None; the lookup itself
\* never raises.
C10_FallbackProbe ==
    Unrecognized =>
        /\ apc # "raised"
        /\ Len(callsLog) <= Len(clients)
        /\ \A i \in 1..Len(callsLog) :
              /\ callsLog[i].platform = clients[i]
              /\ callsLog[i].hit => (i = Len(callsLog) /\ apc = "returned")
        /\ apc = "probe" => aret = NotReturned
        /\ apc = "returned" =>
              IF callsLog # <<>> /\ Last(callsLog).hit
              THEN aret = MarketOf(Last(callsLog).platform, market_id)
              ELSE /\ aret = None
                   /\ Len(callsLog) = Len(clients)

\* Two clients raised, the third one had the market.
C10_Witness ==
    /\ Unrecognized
    /\ apc = "returned"
    /\ Len(clients) = 4
    /\ Len(callsLog) = 3
    /\ aret = MarketOf(clients[3], market_id)

\* ------------------------------------------------------------------------
\* Properties of search_all_flat
\* ------------------------------------------------------------------------
RECURSIVE TotalResults(_)
TotalResults(dict) ==
    IF dict = <<>> THEN 0
    ELSE Len(Head(dict).markets) + TotalResults(Tail(dict))

FlatReturned == aop = "search_all_flat" /\ apc = "returned"

\* The position of a result item in a list, 0 if it is not there.
PositionIn(out, item) ==
    IF \E a \in 1..Len(out) : out[a] = item
    THEN CHOOSE a \in 1..Len(out) : out[a] = item
    ELSE 0

\* C11: search_all_flat returns the per-source results round-robin
\* interleaved: every item of the output is a result of its source and
\* appears once, every source's item at index i comes before any source's
\* item at index i+1, no source contributes its (i+2)-th item before another
\* source that still has an (i+1)-th item has contributed it, and the output
\* holds exactly min(limit, total number of results) items, so never more
\* than the requested limit.
C11_FlatRoundRobin ==
    FlatReturned =>
        /\ Len(aret) <= flat_limit
        /\ Len(aret) = Min(flat_limit, TotalResults(results))
        /\ \A a \in 1..Len(aret) :
              /\ aret[a].platform \in Keys(results)
              /\ aret[a].native <= Len(Lookup(results, aret[a].platform))
              /\ \A b \in 1..Len(aret) :
                    /\ aret[a] = aret[b] => a = b
                    /\ aret[a].native < aret[b].native => a < b
        /\ \A a \in 1..Len(aret), q \in Keys(results) :
              (aret[a].native >= 2 /\ Len(Lookup(results, q)) >= aret[a].native - 1)
              => LET before == PositionIn(aret,
                                  [platform |-> q, native |-> aret[a].native - 1])
                 IN before >= 1 /\ before < a

\* ------------------------------------------------------------------------
\* Properties of find_arbitrage
\* ------------------------------------------------------------------------
ArbReturned == aop = "find_arbitrage" /\ apc = "returned"

\* The snapshots the sources presented.
Presented == Range(Flatten(results))

\* Conditions (a) to (d) on a pair of snapshots, for the threshold least.
Qualifies(a, b, least) ==
    LET W1 == title_words(a.title)
        W2 == title_words(b.title)
        least_words == IF Cardinality(W1) <= Cardinality(W2)
                       THEN Cardinality(W1) ELSE Cardinality(W2)
    IN /\ a.platform # b.platform
       /\ a.probability # NoProbability /\ a.is_active
       /\ b.probability # NoProbability /\ b.is_active
       /\ least_words > 0
       /\ 2 * Cardinality(W1 \cap W2) >= least_words
       /\ \/ a.probability - b.probability >= least
          \/ b.probability - a.probability >= least

ReportedPairs(opps) ==
    { {opps[k].market1, opps[k].market2} : k \in 1..Len(opps) }

OppSet(opps) ==
    { [pair |-> {opps[k].market1.id, opps[k].market2.id},
       spread |-> opps[k].spread,
       similarity |-> opps[k].similarity] : k \in 1..Len(opps) }

\* C13: running the matcher again on the same snapshots yields the same
\* opportunities, identical when they are presented in the same order and
\* the same set when the snapshots or the sources are presented in another
\* order; each unordered pair of snapshot ids is reported at most once and
\* the output is sorted by spread, largest first.
C13_MatchingIdempotent ==
    /\ [](ArbReturned =>
            /\ \A k \in 1..Len(aret), l \in 1..Len(aret) :
                  /\ k < l => aret[k].spread >= aret[l].spread
                  /\ {aret[k].market1.id, aret[k].market2.id}
                        = {aret[l].market1.id, aret[l].market2.id} => k = l)
    /\ [][(ArbReturned /\ ArbReturned') =>
            /\ OppSet(aret') = OppSet(aret)
            /\ results' = results => aret' = aret]_vars

\* The sort reorders what the scan found, or a snapshot is presented twice
\* and its pair, met twice by the scan, is reported.
C13_Witness ==
    /\ ArbReturned
    /\ \/ /\ Len(aret) >= 2
          /\ aret # match(all_markets(results), min_spread, 1, 2, {}, <<>>)
       \/ /\ Len(aret) >= 1
          /\ Len(all_markets(results)) > Cardinality(Range(all_markets(results)))

\* ------------------------------------------------------------------------
\* Properties of ConversationMemory
\* ------------------------------------------------------------------------
\* The position of the last time id was tracked.
LastTracked(id) ==
    CHOOSE i \in 1..Len(tracked) :
        /\ tracked[i] = id
        /\ \A j \in (i + 1)..Len(tracked) : tracked[j] # id

\* The market of the map that was tracked or re-tracked the longest ago.
LeastRecentlyTracked ==
    CHOOSE id \in ContextKeys(market_context) :
        \A other \in ContextKeys(market_context) :
            LastTracked(id) <= LastTracked(other)

\* This step of track_market inserts a new market into a full map.
InsertsIntoFull ==
    /\ Len(tracked') = Len(tracked) + 1
    /\ Last(tracked') \notin ContextKeys(market_context)
    /\ market_context # <<>>
    /\ Len(market_context) >= max_market_context

\* C14: when track_market inserts a new market into a full map, exactly one
\* entry is evicted, and it is the one that was tracked or re-tracked the
\* longest ago, whose last_accessed is the oldest; the map never holds more
\* than max_market_context entries, and with capacity 2 tracking A, B, C in
\* this order leaves exactly {B, C}.
C14_EvictsLeastRecentlyTracked ==
    /\ [](Len(market_context) <= max_market_context)
    /\ []((max_market_context = 2 /\ tracked = <<"A", "B", "C">>)
            => ContextKeys(market_context) = {"B", "C"})
    /\ [][InsertsIntoFull =>
            /\ ContextKeys(market_context') =
                  (ContextKeys(market_context) \ {LeastRecentlyTracked})
                      \cup {Last(tracked')}
            /\ \A i \in 1..Len(market_context) :
                  market_context[i].market_id = LeastRecentlyTracked
                  => \A j \in 1..Len(market_context) :
                        market_context[i].last_accessed
                            <= market_context[j].last_accessed]_vars

\* The last k elements of s.
Suffix(s, k) == SubSeq(s, Len(s) - k + 1, Len(s))

\* C15: after any sequence of add_user_message and add_assistant_message
\* calls the buffer holds at most max_messages messages, and they are exactly
\* the most recently added ones, in the order they were added;
\* get_messages_for_llm lists them in that order.
C15_BufferHoldsMostRecent ==
    /\ Len(memory) <= max_messages
    /\ memory = Suffix(added, Min(max_messages, Len(added)))
    /\ Len(get_messages_for_llm(memory)) = Len(memory)
    /\ \A i \in 1..Len(memory) :
          /\ get_messages_for_llm(memory)[i].role = memory[i].role
          /\ get_messages_for_llm(memory)[i].content = memory[i].content

\* More messages were added than the buffer holds: the oldest was evicted.
C15_Witness ==
    /\ max_messages = 2
    /\ Len(added) = 3
    /\ added[1] # added[2]
    /\ memory = <<added[2], added[3]>>

\* C16: after clear() the message buffer and the market-context map (and
\* the preferences) are empty and the session start is the time of the
\* clear; between operations the owner never sees a state in which only a
\* part has been cleared.
C16_ClearAllOrNothing ==
    /\ []((mem_op = "clear" /\ mem_pc \in MemIdle) =>
            /\ memory = <<>>
            /\ market_context = <<>>
            /\ user_preferences = {})
    /\ [][(mem_op' = "clear" /\ mem_pc' \in MemIdle /\ mem_pc \notin MemIdle)
            => session_start' = clock']_vars

\* clear() has returned at a later time than the session began.
C16_Witness ==
    /\ mem_op = "clear"
    /\ mem_pc = "idle"
    /\ session_start > 0
    /\ memory = <<>>
    /\ market_context = <<>>
\* ------------------------------------------------------------------------
\* Properties of the tool dispatch
\* ------------------------------------------------------------------------
\* The tool result message appended for the k-th dispatch of the turn.
ResultMessageOf(k) == messages[dispatchLog[k].nmsgs + 1]

\* The k-th dispatch returned a ToolResult and the loop appended its text as
\* the result of that call.
FedBack(k) ==
    /\ ~dispatchLog[k].escaped
    /\ Len(messages) > dispatchLog[k].nmsgs
    /\ ResultMessageOf(k).result_for = dispatchLog[k].id
    /\ ResultMessageOf(k).result =
          to_message(IF dispatchLog[k].success THEN "ok" ELSE "error")

\* C17: dispatching a tool name that belongs to no handler group (market,
\* social, trading) returns a ToolResult with success = false and the
\* unknown-tool error, raises nothing and invokes no handler.
C17_UnknownToolNegative ==
    \A k \in 1..Len(dispatchLog) :
        dispatchLog[k].group = "none" =>
            /\ ~dispatchLog[k].escaped
            /\ ~dispatchLog[k].success
            /\ dispatchLog[k].error = UnknownTool
            /\ ~dispatchLog[k].invoked

\* An unknown name was dispatched, the loop went on to the next call of the
\* same round and the turn completed.
C17_Witness ==
    /\ pc = "done"
    /\ Len(dispatchLog) = 2
    /\ dispatchLog[1].group = "none"
    /\ dispatchLog[2].group = "market"
    /\ ~dispatchLog[1].success
\* A dispatch whose arguments were malformed came back as a negative
\* ToolResult that the loop appended for that call.
MalformedReported ==
    \A k \in 1..Len(dispatchLog) :
        dispatchLog[k].arguments # Valid =>
            /\ ~dispatchLog[k].success
            /\ FedBack(k)

\* C18: malformed tool arguments coming from the model (text that does not
\* parse, or an object that does not match the handler's parameters) are
\* reported as a negative ToolResult for that tool call; they never crash
\* dispatch or abort the turn.  Under SpecTools a turn fails only when
\* _extract_tool_calls or _execute_tool raises.
C18_MalformedArgumentsNegative ==
    /\ pc # "failed"
    /\ MalformedReported
\* The step is a dispatch in which the handler raised.
HandlerRaisedNow ==
    /\ Len(dispatchLog') = Len(dispatchLog) + 1
    /\ dispatchLog'[Len(dispatchLog')].handler_raised

UnconfiguredWrite(k) ==
    /\ dispatchLog[k].name \in write_tools
    /\ dispatchLog[k].arguments = Valid
    /\ dispatchLog[k].twitter # "ready"

\* Such a dispatch raised nothing, its result was appended and the turn went
\* on.
UnconfiguredWriteContinues ==
    /\ \A k \in 1..Len(dispatchLog) : UnconfiguredWrite(k) => FedBack(k)
    /\ (\E k \in 1..Len(dispatchLog) : UnconfiguredWrite(k)) =>
          (provider = "anthropic" => pc # "failed")

\* C20: invoking a social (Twitter/X) write tool while the social client is
\* unconfigured yields a ToolResult with success = false and a
\* not-configured error, at once and without raising, and the conversation
\* turn continues normally.
C20_UnconfiguredSocialNegative ==
    /\ UnconfiguredWriteContinues
    /\ \A k \in 1..Len(dispatchLog) :
          UnconfiguredWrite(k) =>
              /\ ~dispatchLog[k].success
              /\ dispatchLog[k].error \in {NotConfigured, NotEnabled}
\* ------------------------------------------------------------------------
\* Properties of the trading tools
\* ------------------------------------------------------------------------
RiskChecks == {"position_size", "exposure", "drawdown"}

\* C21: every trading tool call that attempts execution (place_trade,
\* execute_arbitrage_trade, close_position) first passes through the risk
\* check covering the exposure, drawdown and position-size ceilings: no order
\* is placed unless each ceiling holds for the request.
C21_RiskCheckedBeforeOrder ==
    (last_trade.tool # "none" /\ last_trade.placed > 0) =>
        /\ last_trade.size_ok
        /\ last_trade.exposure_ok
        /\ last_trade.drawdown_ok

\* The state the last trading tool call started from.
Untouched ==
    /\ orders = last_trade.before.orders
    /\ positions = last_trade.before.positions
    /\ current_balance = last_trade.before.balance

\* C22: a trading tool call that ends with success = false, because the risk
\* check failed or because order submission failed, leaves the terminal's
\* orders, positions and balance exactly as they were before the call.
C22_FailureLeavesTerminal ==
    (last_trade.tool # "none" /\ ~last_trade.success) => Untouched
\* ------------------------------------------------------------------------
\* Properties of the tool registry
\* ------------------------------------------------------------------------
\* The name, description and schema the i-th translated tool carries.
Carried(i) ==
    IF reg_dialect = "anthropic"
    THEN << translated[i].name, translated[i].description,
            translated[i].input_schema >>
    ELSE << translated[i].function.name, translated[i].function.description,
            translated[i].function.parameters >>

\* C23: every tool definition of the exported registry (market, social and,
\* when importable, trading tools) is translated into the Anthropic and the
\* OpenAI dialect with its name, description and JSON schema preserved, in
\* registry order; the translation never fails for a registered tool.
C23_TranslationLossless ==
    /\ reg_pc # "raised"
    /\ \A i \in 1..Len(translated) :
          Carried(i) = << registry[i].name, registry[i].description,
                          registry[i].schema >>
    /\ reg_pc = "returned" => Len(translated) = Len(registry)

SocialOffered ==
    \E i \in 1..Len(registry) : registry[i].name \in twitter_tools

\* C24: the social handler group is absent from the registry exported to the
\* model whenever the social backend lacks credentials: social tool schemas
\* are offered only when the social client is configured.
C24_SocialOnlyWhenConfigured ==
    (reg_pc # "idle" /\ SocialOffered) => twitter_state = "ready"
\* ------------------------------------------------------------------------
\* Properties of the order of tool execution
\* ------------------------------------------------------------------------
\* The position in execLog of the execution of tool call id, 0 if none.
ExecIndex(id) ==
    IF id \in ExecutedIds
    THEN CHOOSE k \in 1..Len(execLog) : execLog[k].id = id
    ELSE 0

\* C25: within one model response carrying several tool calls, the tools are
\* executed one at a time in the model's call order: call j+1 starts only
\* after the result message of call j has been appended, and the tool-result
\* messages stand in the in-flight list in that same order, directly after
\* the assistant message that requested them.
C25_SequentialCallOrder ==
    \A i \in 1..Len(messages) :
        \A j \in 1..Len(messages[i].calls) :
            LET id == messages[i].calls[j].id IN
            /\ id \in ExecutedIds =>
                  /\ Len(messages) >= i + j
                  /\ messages[i + j].result_for = id
                  /\ execLog[ExecIndex(id)].nmsgs = i + j - 1
                  /\ execLog[ExecIndex(id)].name = messages[i].calls[j].name
                  /\ j > 1 =>
                        /\ messages[i].calls[j - 1].id \in ExecutedIds
                        /\ ExecIndex(messages[i].calls[j - 1].id) = ExecIndex(id) - 1
            /\ id \notin ExecutedIds =>
                  LET k == j - (Len(messages[i].calls) - Len(pending)) IN
                  /\ k \in 1..Len(pending)
                  /\ pending[k].id = id

\* Two tool calls of one response were executed, the first failed, and the
\* turn went on to the next model call.
C25_Witness ==
    /\ Len(execLog) >= 2
    /\ execLog[1].nllm = execLog[2].nllm
    /\ execLog[1].outcome = "error"
    /\ execLog[1].name # execLog[2].name
    /\ Len(llmLog) >= 2
\* ------------------------------------------------------------------------
\* The streaming loop against the blocking loop
\* ------------------------------------------------------------------------
\* _run_agent_loop, the for loop: the list and the counter after the tool
\* calls whose outcomes are given.
RECURSIVE tool_round(_, _, _, _, _)
tool_round(p, msgs, count, calls, outcomes) ==
    IF calls = <<>> \/ outcomes = <<>>
    THEN [messages |-> msgs, count |-> count]
    ELSE tool_round(p,
                    Append(msgs, tool_result_message(p, Head(calls), Head(outcomes))),
                    count + 1, Tail(calls), Tail(outcomes))

\* _run_agent_loop, the while loop, fed with a script: the model responses
\* in order, each with the outcomes of its tool calls.  left is what the loop
\* did not consume.
RECURSIVE run_agent_loop(_, _, _, _, _, _)
run_agent_loop(p, msgs, count, max, script, firstId) ==
    IF ~(count < max) \/ script = <<>>
    THEN [messages |-> msgs, count |-> count, left |-> Len(script)]
    ELSE LET resp == Head(script).resp
             tool_calls == extract_tool_calls(resp, firstId)
         IN  IF tool_calls = <<>>
             THEN [messages |-> msgs, count |-> count, left |-> Len(script) - 1]
             ELSE LET after == tool_round(p,
                                   Append(msgs, response_to_message(p, resp, firstId)),
                                   count, tool_calls, Head(script).outcomes)
                  IN  run_agent_loop(p, after.messages, after.count, max,
                                     Tail(script), firstId + Len(tool_calls))

\* The model calls of the turn that asked for tools.
ToolRounds ==
    { i \in 1..Len(llmLog) : llmLog[i].api = "call" /\ llmLog[i].ncalls > 0
                              /\ ~llmLog[i].final }

ExecutedIn(n) == SelectSeq(execLog, LAMBDA e : e.nllm = n)

\* What the model and the tools answered in this turn, as the streaming loop
\* saw it: per tool round the names asked for and the outcomes so far.
Script ==
    [n \in 1..Cardinality(ToolRounds) |->
        LET done == ExecutedIn(n)
            open == IF n = Cardinality(ToolRounds) THEN pending ELSE <<>>
        IN  [resp |-> [text |-> <<>>,
                       calls |-> [j \in 1..Len(done) |-> done[j].name]
                                   \o [j \in 1..Len(open) |-> open[j].name]],
             outcomes |-> [j \in 1..Len(done) |-> done[j].outcome]]]

\* The memory the turn started from, with the user message.
TurnMemory ==
    IF pc = "done" THEN SubSeq(memory, 1, Len(memory) - 1) ELSE memory

\* The fragments the streaming loop has handed out: one notification per
\* tool call started, then the fragments of the model stream.
Notifications(started) ==
    [j \in 1..Len(execLog) |-> ProgressFragment(execLog[j].name)]
        \o (IF started THEN <<ProgressFragment(Head(pending).name)>> ELSE <<>>)

ModelFragments == [j \in 1..nchunks |-> ChunkAt(j)]

\* C26: for the same conversation state and the same model responses the
\* streaming loop makes the decisions of the blocking loop: it executes the
\* same tool calls in the same order, builds the same in-flight list and
\* stops executing tools under the same condition; it differs only in one
\* progress notification per tool call and in the final answer arriving as
\* fragments.
C26_StreamingDecidesAsBlocking ==
    (mode = "stream" /\ pc # "idle") =>
        LET b == run_agent_loop(provider, build_messages(TurnMemory), 0,
                                max_tool_calls, Script, 0)
        IN  /\ ToolRounds = 1..Cardinality(ToolRounds)
            /\ b.messages = messages
            /\ b.count = tool_calls_count
            /\ b.left = 0
            /\ (pc = "head" /\ ENABLED LoopCallLLM) <=>
                   (pc = "head" /\ tool_calls_count < max_tool_calls)
            /\ \E started \in BOOLEAN :
                  /\ started => pending # <<>>
                  /\ pc = "suspended" => started
                  /\ pc \in {"exec", "head"} => ~started
                  /\ yielded = Notifications(started) \o ModelFragments

\* A streamed turn of two tool rounds, three tool calls in all, one of them
\* failed, that ended with a streamed answer.
C26_Witness ==
    /\ mode = "stream"
    /\ pc = "done"
    /\ Cardinality(ToolRounds) = 2
    /\ Len(execLog) = 3
    /\ \E j \in 1..3 : execLog[j].outcome = "error"
    /\ nchunks = MaxChunks

\* The model call before the i-th one was a call() that returned no tool
\* call.
AfterToolFreeCall(i) ==
    /\ i > 1
    /\ llmLog[i - 1].api = "call"
    /\ llmLog[i - 1].ncalls = 0

\* C27 (as claimed): in a streaming turn stream() is entered only after a
\* blocking call() of that turn returned a response with zero tool calls.
C27_StreamOnlyAfterToolFreeCall ==
    \A i \in 1..Len(llmLog) :
        llmLog[i].api = "stream" => AfterToolFreeCall(i)

\* C27 (amended): stream() is entered only when the loop has ended, after a
\* call() that returned zero tool calls or with the budget exhausted; every
\* tool call requested so far has then been executed and answered, and no
\* model call follows the stream.
C27_StreamAfterLoopEnds ==
    \A i \in 1..Len(llmLog) :
        llmLog[i].api = "stream" =>
            /\ AfterToolFreeCall(i) \/ llmLog[i].count >= max_tool_calls
            /\ AfterToolFreeCall(i) => llmLog[i].count < max_tool_calls
            /\ llmLog[i].paired
            /\ llmLog[i].nexec = llmLog[i].count
            /\ i = Len(llmLog)
            /\ pending = <<>>

\* A stream entered on budget exhaustion, right after a round of tool calls.
C27_Witness ==
    /\ mode = "stream"
    /\ pc = "done"
    /\ Len(llmLog) = 2
    /\ llmLog[1].ncalls = 2
    /\ llmLog[2].api = "stream"
    /\ llmLog[2].final
    /\ max_tool_calls = 1
\* C28: after any sequence of chat and chat_stream turns, failed and
\* abandoned ones included, the history strictly alternates user and
\* assistant messages: no two user messages are adjacent.
C28_HistoryAlternates ==
    pc \in {"idle", "done", "failed", "abandoned"} =>
        \A i \in 1..(Len(memory) - 1) : memory[i].role # memory[i + 1].role
StatsFromTrades(a) ==
    AgentStatsRow(Len(RowsOf(trades, a)),
                  SumColumn(RowsOf(trades, a), "total_volume"),
                  SumColumn(RowsOf(trades, a), "platform_fee"),
                  SumColumn(RowsOf(trades, a), "net_profit"))

SystemFromTrades ==
    SystemStatsRow(Len(trades), SumColumn(trades, "total_volume"),
                   SumColumn(trades, "platform_fee"))

AgentStatsAgree == \A a \in DbAgents : agent_stats[a] = StatsFromTrades(a)

SystemStatsAgree == system_stats = SystemFromTrades

FalseChangesNothing ==
    save_returned' = "False" =>
        UNCHANGED << trades, agent_stats, system_stats >>

\* C30: after any sequence of save_trade calls each agent's agent_stats row
\* and the system_stats row equal the count and the sums over the stored
\* trade rows, and a save_trade that returns False changes none of them.
C30_StatsAgreeWithTrades ==
    /\ [](AgentStatsAgree /\ SystemStatsAgree)
    /\ [][FalseChangesNothing]_vars

\* What does hold: the agent rows always agree, a False changes nothing.
AgentStatsAlwaysAgree ==
    /\ []AgentStatsAgree
    /\ [][FalseChangesNothing]_vars

\* The system row agrees in count and fees, and in volume as long as every
\* saved dict carried its total_volume.
SystemStatsAgreeButVolume ==
    /\ system_stats.total_trades = SystemFromTrades.total_trades
    /\ system_stats.total_fees_collected = SystemFromTrades.total_fees_collected
    /\ system_stats.total_volume <= SystemFromTrades.total_volume
====
